---------------------------- MODULE Spec2Model ----------------------------
(***************************************************************************)
(* A model of the PPO trainer of LLM-RLHF-Tuning                           *)
(* (script/utils/ppo_trainer_with_peft.py, script/utils/ppo_models.py).    *)
(*                                                                         *)
(* The module holds several specifications over one set of variables:      *)
(*   SpecRole    the adapter / value-head switching of                     *)
(*               get_co_model_output, get_model_output and train_step,     *)
(*               driven by the rollout / train-step order of train;        *)
(*   SpecMask    process_sequences, pad_across_processes and               *)
(*               get_responses_mask;                                       *)
(*   SpecReward  get_last_reward_score and compute_rewards_with_kl_penalty;*)
(*   SpecGAE     the masking of get_experience_data and                    *)
(*               get_advantages_and_returns;                               *)
(*   SpecWhiten  masked_whiten;                                            *)
(*   SpecLoss    actor_loss and critic_loss;                               *)
(*   SpecTrain   the replay buffer, get_mini_dataset and the train steps   *)
(*               of train;                                                 *)
(*   SpecCkpt    the same loop with gradient accumulation and save_steps;  *)
(*   SpecDist    the train steps, logs and checkpoints of several          *)
(*               processes;                                                *)
(*   SpecConfig  the construction of the engines and of the trainer;       *)
(*   SpecStep    train_step stage by stage inside the loops of train;      *)
(*   SpecWarmup  the auxiliary loss weight of train_step;                  *)
(*   SpecLogs    record_logs and print_logs in several processes.          *)
(* Each specification leaves the variables of the others at their idle     *)
(* values.  Real-valued tensors are modelled by integers (or, for          *)
(* masked_whiten, by fixed-point numbers); tensors are sequences.          *)
(***************************************************************************)
EXTENDS Integers, Sequences, FiniteSets, TLC

VARIABLES
    \* ---- SpecRole: the trainer's arguments and the shared model ----
    args,            \* use_co_model, use_multi_adapters, has_extra, mini_data_buffer_nums, steps
    pc,              \* the trainer's position
    active_adapter,  \* the active adapter of the policy PEFT model ("default" | "critic")
    adapters_on,     \* per PEFT model: adapter layers enabled (FALSE inside disable_adapter())
    store,           \* tensor storages: "vhead" (the v_head parameters), "rm" (reward state dict)
    critic_head_buf, \* the storage the buffers critic_head_weight / critic_head_bias refer to
    policy_w,        \* weights of the policy adapter
    critic_w,        \* weights of the critic adapter
    last_fwd,        \* the configuration of the last forward pass
    pre_call,        \* v_head and policy weights at the entry of get_(co_)model_output
    trained_head,    \* v_head as construction / the last optimizer step left it
    raised_at,       \* where a forward pass raised ("none" when none did)
    n_rollouts,      \* rollouts collected so far
    buffer_len,      \* len(data_buffer)
    steps_left,      \* train steps left in the running inner PPO epochs
    \* ---- SpecMask, SpecReward, SpecGAE, SpecWhiten: one call of the pipeline ----
    call_stage,      \* the position inside get_experience_data / the function called
    call_args,       \* the arguments and trainer options of the call
    call_out         \* the tensors computed so far

roleVars == <<args, pc, active_adapter, adapters_on, store, critic_head_buf, policy_w,
              critic_w, last_fwd, pre_call, trained_head, raised_at, n_rollouts,
              buffer_len, steps_left>>

callVars == <<call_stage, call_args, call_out>>

vars == <<roleVars, callVars>>

(***************************************************************************)
(* Bounds.                                                                 *)
(***************************************************************************)
MaxW == 1            \* weights and biases range over 0..MaxW
MaxRollouts == 3     \* rollouts collected in one run of train
MaxBuffer == 2       \* mini_data_buffer_nums ranges over 1..MaxBuffer
MaxSteps == 2        \* train steps per flattened buffer range over 1..MaxSteps

Weights == 0..MaxW
VHead == [weight : Weights, bias : Weights]

(***************************************************************************)
(* SpecRole                                                                *)
(***************************************************************************)

\* The PEFT model that carries the policy adapter: the shared model, or actor_model.
PolicyModel == IF args.use_co_model THEN "co" ELSE "actor"
\* The model that carries v_head: the shared model, or critic_model.
CriticModel == IF args.use_co_model THEN "co" ELSE "critic"

\* One forward pass of model m producing the outputs outs.
Forward(outs, m) ==
    [outs    |-> outs,
     model   |-> m,
     adapter |-> IF ~adapters_on[m] THEN "disabled"
                 ELSE IF m = "critic" THEN "critic" ELSE active_adapter,
     head    |-> store["vhead"],
     critic_head |-> trained_head]

NoForward == [outs |-> {}, model |-> "none", adapter |-> "none",
              head |-> [weight |-> 0, bias |-> 0],
              critic_head |-> [weight |-> 0, bias |-> 0]]

\* v_head.state_dict(): the tensors of the returned dict are param.detach(), which
\* share the parameters' storage.
VHeadStateDict == "vhead"

\* setattr(model, "critic_head_weight" / "critic_head_bias", v_head_stat_dict[...]):
\* the buffers now refer to what the state dict holds.
SaveCriticHead == VHeadStateDict

\* v_head.load_state_dict({... getattr(model, buf) ...}): param.copy_(input) in place.
LoadStateDict(st, buf) == [st EXCEPT !["vhead"] = st[buf]]

\* set_adapter("default") after the critic forward pass.
SetAdapterDefault_Skipped == active_adapter
SetAdapterDefault == "default"

\* Leaving "with ... disable_adapter():" (normally or by an exception): the context
\* manager of peft re-enables the adapter layers in its finally clause.
ExitDisableAdapter(on, m) == [on EXCEPT ![m] = TRUE]
EnterDisableAdapter(on, m) == [on EXCEPT ![m] = FALSE]

Models == {"co", "actor", "critic"}

\* The v_head entries of the reward model's adapter_model.bin (one fixed value: the
\* weights are opaque, only their equality matters).
RewardHead == [weight |-> 0, bias |-> 0]

\* The idle values of the pipeline variables.
CallIdle ==
    /\ call_stage = "idle"
    /\ call_args = <<>>
    /\ call_out = <<>>

RoleInit ==
    /\ \E co \in BOOLEAN, multi \in BOOLEAN, extra \in BOOLEAN,
          nb \in 1..MaxBuffer, ns \in 1..MaxSteps :
          args = [use_co_model |-> co, use_multi_adapters |-> multi, has_extra |-> extra,
                  mini_data_buffer_nums |-> nb, steps |-> ns, reward_head |-> RewardHead]
    \* create_model / _init_critic: v_head is loaded from the reward model, or from
    \* peft_path / critic_peft_path when given; the four buffers are registered with the
    \* tensors of the reward model's state dict.
    /\ \E h \in VHead : store = [vhead |-> h, rm |-> args.reward_head]
    /\ trained_head = store["vhead"]
    /\ critic_head_buf = "rm"
    /\ pc = "loop"
    /\ active_adapter = "default"
    /\ adapters_on = [m \in Models |-> TRUE]
    /\ policy_w = 0
    /\ critic_w = 0
    /\ last_fwd = NoForward
    /\ pre_call = [head |-> store["vhead"], policy |-> policy_w]
    /\ raised_at = "none"
    /\ n_rollouts = 0
    /\ buffer_len = 0
    /\ steps_left = 0
    /\ CallIdle

\* train, lines 881-887, and generate: the next dataloader batch is rolled out.
Generate ==
    /\ UNCHANGED callVars
    /\ pc = "loop"
    /\ n_rollouts < MaxRollouts
    /\ n_rollouts' = n_rollouts + 1
    /\ last_fwd' = Forward({"generate"}, PolicyModel)
    /\ pc' = "out_actor"
    /\ UNCHANGED <<args, active_adapter, adapters_on, store, critic_head_buf, policy_w,
                   critic_w, pre_call, trained_head, raised_at, buffer_len, steps_left>>

\* get_co_model_output line 453 (then 455-456 or 460); get_model_output line 483 (the
\* actor forward of PPOModel.forward).
OutActor ==
    /\ UNCHANGED callVars
    /\ pc = "out_actor"
    /\ pre_call' = [head |-> store["vhead"], policy |-> policy_w]
    /\ IF args.use_co_model
       THEN /\ last_fwd' = Forward(IF args.use_multi_adapters THEN {"actor"}
                                   ELSE {"actor", "critic"}, "co")
            /\ IF args.use_multi_adapters
               THEN /\ active_adapter' = "critic"
                    /\ pc' = "out_critic"
                    /\ UNCHANGED adapters_on
               ELSE /\ adapters_on' = EnterDisableAdapter(adapters_on, "co")
                    /\ pc' = "out_ref"
                    /\ UNCHANGED active_adapter
       ELSE /\ last_fwd' = Forward({"actor"}, "actor")
            /\ pc' = "out_critic"
            /\ UNCHANGED <<active_adapter, adapters_on>>
    /\ UNCHANGED <<args, store, critic_head_buf, policy_w, critic_w, trained_head,
                   raised_at, n_rollouts, buffer_len, steps_left>>

\* get_co_model_output lines 457-460; get_model_output: the critic forward of
\* PPOModel.forward, then line 484.
OutCritic ==
    /\ UNCHANGED callVars
    /\ pc = "out_critic"
    /\ last_fwd' = Forward({"critic"}, CriticModel)
    /\ active_adapter' = IF args.use_co_model THEN SetAdapterDefault ELSE active_adapter
    /\ adapters_on' = EnterDisableAdapter(adapters_on, PolicyModel)
    /\ pc' = "out_ref"
    /\ UNCHANGED <<args, store, critic_head_buf, policy_w, critic_w, pre_call,
                   trained_head, raised_at, n_rollouts, buffer_len, steps_left>>

\* get_co_model_output lines 462-470; get_model_output lines 486-495: the reference
\* forward, then the critic head is saved and the reward head loaded into v_head.
OutRef ==
    /\ UNCHANGED callVars
    /\ pc = "out_ref"
    /\ last_fwd' = Forward({"ref"}, PolicyModel)
    /\ adapters_on' = IF args.use_co_model THEN adapters_on
                      ELSE EnterDisableAdapter(ExitDisableAdapter(adapters_on, "actor"),
                                               "critic")
    /\ critic_head_buf' = SaveCriticHead
    /\ store' = LoadStateDict(store, "rm")
    /\ pc' = "out_reward"
    /\ UNCHANGED <<args, active_adapter, policy_w, critic_w, pre_call, trained_head,
                   raised_at, n_rollouts, buffer_len, steps_left>>

\* get_co_model_output lines 472-476; get_model_output lines 497-501: the reward
\* forward, then "back to critic model v_head" and the end of the with block.
OutReward ==
    /\ UNCHANGED callVars
    /\ pc = "out_reward"
    /\ last_fwd' = Forward({"reward"}, CriticModel)
    /\ store' = LoadStateDict(store, critic_head_buf)
    /\ adapters_on' = ExitDisableAdapter(adapters_on, CriticModel)
    /\ pc' = "collected"
    /\ UNCHANGED <<args, active_adapter, critic_head_buf, policy_w, critic_w, pre_call,
                   trained_head, raised_at, n_rollouts, buffer_len, steps_left>>

\* train lines 890-899: the record is appended; a full buffer is flattened and cleared
\* and the inner PPO epochs start.
Collected ==
    /\ UNCHANGED callVars
    /\ pc = "collected"
    /\ IF buffer_len + 1 = args.mini_data_buffer_nums
       THEN /\ buffer_len' = 0
            /\ steps_left' = args.steps
            /\ pc' = "ts_actor"
       ELSE /\ buffer_len' = buffer_len + 1
            /\ pc' = "loop"
            /\ UNCHANGED steps_left
    /\ UNCHANGED <<args, active_adapter, adapters_on, store, critic_head_buf, policy_w,
                   critic_w, last_fwd, pre_call, trained_head, raised_at, n_rollouts>>

\* train_step lines 780-784 (shared model) or PPOModel.forward line 62 (line 789).
\* With the shared model and no auxiliary data, line 781 unpacks None and raises.
TsActor ==
    /\ UNCHANGED callVars
    /\ pc = "ts_actor"
    /\ pre_call' = [head |-> store["vhead"], policy |-> policy_w]
    /\ IF args.use_co_model
       THEN /\ last_fwd' = Forward(IF args.use_multi_adapters THEN {"actor"}
                                   ELSE {"actor", "critic"}, "co")
            /\ IF ~args.has_extra
               THEN /\ pc' = "failed"
                    /\ raised_at' = "ts_extra"
                    /\ UNCHANGED active_adapter
               ELSE /\ UNCHANGED raised_at
                    /\ IF args.use_multi_adapters
                       THEN active_adapter' = "critic" /\ pc' = "ts_critic"
                       ELSE UNCHANGED active_adapter /\ pc' = "ts_opt"
       ELSE /\ last_fwd' = Forward({"actor"}, "actor")
            /\ pc' = "ts_critic"
            /\ UNCHANGED <<active_adapter, raised_at>>
    /\ UNCHANGED <<args, adapters_on, store, critic_head_buf, policy_w, critic_w,
                   trained_head, n_rollouts, buffer_len, steps_left>>

\* train_step lines 785-786 (shared model, multi adapters) or PPOModel.forward line 63.
TsCritic ==
    /\ UNCHANGED callVars
    /\ pc = "ts_critic"
    /\ last_fwd' = Forward({"critic"}, CriticModel)
    /\ active_adapter' = IF args.use_co_model THEN SetAdapterDefault ELSE active_adapter
    /\ pc' = "ts_opt"
    /\ UNCHANGED <<args, adapters_on, store, critic_head_buf, policy_w, critic_w,
                   pre_call, trained_head, raised_at, n_rollouts, buffer_len, steps_left>>

\* train_step lines 792-822: losses, backward, optimizer.step() on the trainable
\* parameters (policy adapter, critic adapter, v_head), then train lines 899-901.
TsOptimize ==
    /\ UNCHANGED callVars
    /\ pc = "ts_opt"
    /\ \E p \in Weights, c \in Weights, h \in VHead :
          /\ policy_w' = p
          /\ critic_w' = IF args.use_co_model /\ ~args.use_multi_adapters
                         THEN critic_w ELSE c
          /\ store' = [store EXCEPT !["vhead"] = h]
          /\ trained_head' = h
    /\ steps_left' = steps_left - 1
    /\ pc' = IF steps_left = 1 THEN "loop" ELSE "ts_actor"
    /\ UNCHANGED <<args, active_adapter, adapters_on, critic_head_buf, last_fwd,
                   pre_call, raised_at, n_rollouts, buffer_len>>

\* A forward pass raises.  The exception leaves the with blocks it is in (their
\* finally clauses run) and nothing else is undone; train does not catch it.
ForwardPcs == {"out_actor", "out_critic", "out_ref", "out_reward", "ts_actor", "ts_critic"}

ForwardRaises ==
    /\ UNCHANGED callVars
    /\ pc \in ForwardPcs
    /\ raised_at' = pc
    /\ pc' = "failed"
    /\ adapters_on' = IF pc = "out_ref" THEN ExitDisableAdapter(adapters_on, PolicyModel)
                      ELSE IF pc = "out_reward"
                           THEN ExitDisableAdapter(adapters_on, CriticModel)
                           ELSE adapters_on
    /\ UNCHANGED <<args, active_adapter, store, critic_head_buf, policy_w, critic_w,
                   last_fwd, pre_call, trained_head, n_rollouts, buffer_len, steps_left>>

RoleNext ==
    \/ Generate
    \/ OutActor
    \/ OutCritic
    \/ OutRef
    \/ OutReward
    \/ Collected
    \/ TsActor
    \/ TsCritic
    \/ TsOptimize
    \/ ForwardRaises

SpecRole == RoleInit /\ [][RoleNext]_vars

\* A forward pass raised while a role was temporarily swapped: the critic adapter
\* selected (shared model with multi adapters), the adapters disabled, or the reward
\* head loaded into v_head.
RaisedWhileSwapped ==
    /\ pc = "failed"
    /\ \/ raised_at \in {"out_ref", "out_reward"}
       \/ /\ raised_at \in {"out_critic", "ts_critic"}
          /\ args.use_co_model
          /\ args.use_multi_adapters

\* C1: if a forward pass raises while a role is temporarily swapped inside
\* get_co_model_output, get_model_output or train_step's critic-adapter section, then
\* on exit the policy ("default") adapter is the active, enabled adapter and v_head
\* holds the critic head weights it held before the call.
C1_RestoredOnRaise ==
    RaisedWhileSwapped =>
        /\ active_adapter = "default"
        /\ \A m \in Models : adapters_on[m]
        /\ store["vhead"] = pre_call.head

\* C2: after get_co_model_output / get_model_output returns normally, the weight and
\* bias of v_head equal the critic-head values they held immediately before the call,
\* after any number of rollouts and optimizer steps.
C2_CriticHeadRestored ==
    pc = "collected" => store["vhead"] = pre_call.head

\* C3: switching to the reference role (adapters disabled) or to the critic adapter and
\* back leaves the policy adapter weights as they were and the policy ("default")
\* adapter active and enabled, so that every generate call and every actor forward
\* pass, after any rollouts and train steps, runs under the policy adapter.
C3_PolicyRoleRestored ==
    /\ (last_fwd.outs \cap {"generate", "actor"} # {} => last_fwd.adapter = "default")
    /\ (pc \in {"loop", "collected", "ts_opt"} =>
            active_adapter = "default" /\ adapters_on[PolicyModel])
    /\ (pc \in {"collected", "ts_opt"} => policy_w = pre_call.policy)

\* A second rollout generates after the policy adapter was trained, the critic adapter
\* having been selected and deselected in between.
C3_Witness ==
    /\ last_fwd.outs = {"generate"}
    /\ n_rollouts >= 2
    /\ args.use_co_model /\ args.use_multi_adapters
    /\ policy_w # 0

\* C4: at every forward pass actor logits are produced with the policy adapter,
\* reference logits with the adapter disabled, critic values with the critic head (and
\* the critic adapter when use_multi_adapters), reward values with the frozen reward
\* head; the reward head weights are never modified.
C4_OneRolePerForward ==
    /\ ("actor" \in last_fwd.outs => last_fwd.adapter = "default")
    /\ ("ref" \in last_fwd.outs => last_fwd.adapter = "disabled")
    /\ ("critic" \in last_fwd.outs =>
            /\ last_fwd.head = last_fwd.critic_head
            /\ (args.use_co_model /\ args.use_multi_adapters
                    => last_fwd.adapter = "critic"))
    /\ ("reward" \in last_fwd.outs => last_fwd.head = args.reward_head)
    /\ store["rm"] = args.reward_head

(***************************************************************************)
(* Tensors: a vector is a sequence, a batch a sequence of vectors.         *)
(***************************************************************************)
SetMax(S) == CHOOSE m \in S : \A x \in S : x <= m

RECURSIVE SeqSum(_)
SeqSum(v) == IF v = <<>> THEN 0 ELSE v[1] + SeqSum(Tail(v))

\* tensor.nonzero(): the indices (1-based here) of the nonzero entries.
Nonzero(v) == {k \in 1..Len(v) : v[k] # 0}

\* tensor[1:]
Drop1(v) == SubSeq(v, 2, Len(v))
\* tensor[:-1]
DropLast(v) == SubSeq(v, 1, Len(v) - 1)

\* v filled with pad up to length n, on the right and on the left.
PadRight(v, n, pad) == [k \in 1..n |-> IF k <= Len(v) THEN v[k] ELSE pad]
PadLeft(v, n, pad) == [k \in 1..n |-> IF k <= n - Len(v) THEN pad ELSE v[k - (n - Len(v))]]

\* All sequences over S of a length in lo..hi.
SeqsOf(S, lo, hi) == UNION {[1..n -> S] : n \in lo..hi}

(***************************************************************************)
(* SpecMask: process_sequences, pad_across_processes, get_responses_mask.  *)
(***************************************************************************)
MaxBatch == 2        \* examples per rollout batch
MaxPrompt == 2       \* prompt lengths range over 1..MaxPrompt
MaxResponse == 2     \* response lengths range over 1..MaxResponse
MaxOtherLen == 5     \* longest packed sequence on the other processes

\* tokenizer.pad_token_id
PadToken == 0
\* The token ids of prompts and of responses: kept apart, so that a packed sequence
\* shows which of its positions hold prompt tokens.
PromptTokens == {1}
ResponseTokens == {2}

\* process_sequences, lines 336-345: one example.
PromptWithoutPadding_Kept(prompt) == prompt
PromptWithoutPadding(prompt) ==
    LET prompt_left_padding_length == Cardinality({k \in 1..Len(prompt) : prompt[k] = PadToken})
    IN  SubSeq(prompt, prompt_left_padding_length + 1, Len(prompt))

ResponseWithoutPadding(response) ==
    LET response_length == Cardinality({k \in 1..Len(response) : response[k] # PadToken})
    IN  SubSeq(response, 1, response_length)

\* sequences.ne(pad_token_id).long()
AttentionMask(ids) == [k \in 1..Len(ids) |-> IF ids[k] # PadToken THEN 1 ELSE 0]

\* process_sequences, lines 331-357.
process_sequences(prompts_ids, responses_ids) ==
    LET batch_size == Len(prompts_ids)
        prompts_without_padding ==
            [i \in 1..batch_size |-> PromptWithoutPadding(prompts_ids[i])]
        responses_without_padding ==
            [i \in 1..batch_size |-> ResponseWithoutPadding(responses_ids[i])]
        new_sequences ==
            [i \in 1..batch_size |-> prompts_without_padding[i] \o responses_without_padding[i]]
        max_len == SetMax({Len(new_sequences[i]) : i \in 1..batch_size})
        input_ids == [i \in 1..batch_size |-> PadRight(new_sequences[i], max_len, PadToken)]
    IN  [prompts_without_padding |-> prompts_without_padding,
         responses_without_padding |-> responses_without_padding,
         input_ids |-> input_ids,
         attention_mask |-> [i \in 1..batch_size |-> AttentionMask(input_ids[i])]]

\* accelerator.pad_across_processes(tensor, dim=1, pad_index, pad_first), the other
\* processes' longest row being other_len: lines 513-518.
pad_across_processes(tensor, other_len, pad_index, pad_first) ==
    LET max_size == SetMax({Len(tensor[1]), other_len})
    IN  [i \in 1..Len(tensor) |->
            IF pad_first THEN PadLeft(tensor[i], max_size, pad_index)
            ELSE PadRight(tensor[i], max_size, pad_index)]

\* get_responses_mask, lines 438-446: zeros, then the sequence mask from index
\* len(prompt) on.
get_responses_mask(sequences_mask, prompts_without_padding) ==
    [i \in 1..Len(sequences_mask) |->
        [k \in 1..Len(sequences_mask[i]) |->
            IF k > Len(prompts_without_padding[i]) THEN sequences_mask[i][k] ELSE 0]]

\* The batches the data collator and generate hand to process_sequences: prompts
\* padded on the left, responses on the right, each to the longest of the batch.  A
\* response may hold no token but padding (generation ended at once and the end
\* token is the pad token); generate returns one position at least.
Examples ==
    {[prompt |-> q, response |-> r] :
        q \in SeqsOf(PromptTokens, 1, MaxPrompt), r \in SeqsOf(ResponseTokens, 0, MaxResponse)}

Batches == UNION {[1..n -> Examples] : n \in 1..MaxBatch}

PromptsIds(batch) ==
    LET width == SetMax({Len(batch[i].prompt) : i \in 1..Len(batch)})
    IN  [i \in 1..Len(batch) |-> PadLeft(batch[i].prompt, width, PadToken)]

ResponsesIds(batch) ==
    LET width == SetMax({1} \cup {Len(batch[i].response) : i \in 1..Len(batch)})
    IN  [i \in 1..Len(batch) |-> PadRight(batch[i].response, width, PadToken)]

RoleIdle ==
    /\ args = <<>>
    /\ pc = "idle"
    /\ active_adapter = "default"
    /\ adapters_on = <<>>
    /\ store = <<>>
    /\ critic_head_buf = "rm"
    /\ policy_w = 0
    /\ critic_w = 0
    /\ last_fwd = <<>>
    /\ pre_call = <<>>
    /\ trained_head = <<>>
    /\ raised_at = "none"
    /\ n_rollouts = 0
    /\ buffer_len = 0
    /\ steps_left = 0

MaskInit ==
    /\ RoleIdle
    /\ call_stage = "process_sequences"
    /\ \E batch \in Batches, dist \in BOOLEAN, left \in BOOLEAN, other \in 1..MaxOtherLen :
          /\ dist \/ (~left /\ other = 1)
          /\ call_args = [prompts_ids |-> PromptsIds(batch),
                          responses_ids |-> ResponsesIds(batch),
                          is_distributed |-> dist,
                          padding_side |-> IF left THEN "left" ELSE "right",
                          other_len |-> other]
    /\ call_out = <<>>

\* get_experience_data line 507.
ProcessSequences ==
    /\ call_stage = "process_sequences"
    /\ call_out' = process_sequences(call_args.prompts_ids, call_args.responses_ids)
    /\ call_stage' = IF call_args.is_distributed THEN "pad_across_processes"
                     ELSE "get_responses_mask"
    /\ UNCHANGED <<call_args, roleVars>>

\* get_experience_data lines 510-518.
PadAcrossProcesses ==
    /\ call_stage = "pad_across_processes"
    /\ LET pad_first == call_args.padding_side = "left"
       IN  call_out' =
             [call_out EXCEPT
                !.input_ids = pad_across_processes(@, call_args.other_len, PadToken, pad_first),
                !.attention_mask = pad_across_processes(@, call_args.other_len, 0, pad_first)]
    /\ call_stage' = "get_responses_mask"
    /\ UNCHANGED <<call_args, roleVars>>

\* get_experience_data line 534.
GetResponsesMask ==
    /\ call_stage = "get_responses_mask"
    /\ call_out' =
          [prompts_without_padding |-> call_out.prompts_without_padding,
           responses_without_padding |-> call_out.responses_without_padding,
           input_ids |-> call_out.input_ids,
           attention_mask |-> call_out.attention_mask,
           responses_mask |-> get_responses_mask(call_out.attention_mask,
                                                 call_out.prompts_without_padding)]
    /\ call_stage' = "masked"
    /\ UNCHANGED <<call_args, roleVars>>

\* get_experience_data line 536: the end indices of get_last_reward_score (line 368)
\* and of compute_rewards_with_kl_penalty (line 408); nonzero()[-1] raises an
\* IndexError on a mask without a nonzero position, and nothing catches it.
NoNonzeroRows(mask) == {i \in 1..Len(mask) : Nonzero(mask[i]) = {}}

EndIndices ==
    /\ call_stage = "masked"
    /\ LET responses_mask == call_out.responses_mask
           masks == [i \in 1..Len(responses_mask) |-> Drop1(responses_mask[i])]
       IN  IF NoNonzeroRows(responses_mask) # {} \/ NoNonzeroRows(masks) # {}
           THEN /\ call_stage' = "IndexError"
                /\ UNCHANGED call_out
           ELSE /\ call_stage' = "rewarded"
                /\ call_out' =
                      [prompts_without_padding |-> call_out.prompts_without_padding,
                       responses_without_padding |-> call_out.responses_without_padding,
                       input_ids |-> call_out.input_ids,
                       attention_mask |-> call_out.attention_mask,
                       responses_mask |-> responses_mask,
                       end_index |-> [i \in 1..Len(responses_mask) |->
                                         SetMax(Nonzero(responses_mask[i]))]]
    /\ UNCHANGED <<call_args, roleVars>>

MaskNext ==
    \/ ProcessSequences
    \/ PadAcrossProcesses
    \/ GetResponsesMask
    \/ EndIndices

SpecMask == MaskInit /\ [][MaskNext]_vars

\* C5: for every example of every rollout batch, in single-process mode and in
\* distributed mode after the padding across processes (left or right),
\* responses_mask is 0 at every index holding a prompt token and equals the sequence
\* attention mask at every other index.
C5_MaskInvariant ==
    call_stage = "masked" =>
        \A i \in 1..Len(call_out.input_ids) :
            \A k \in 1..Len(call_out.input_ids[i]) :
                call_out.responses_mask[i][k] =
                    IF call_out.input_ids[i][k] \in PromptTokens THEN 0
                    ELSE call_out.attention_mask[i][k]

\* C5 in single-process mode, or with the padding on the right.
C5_MaskInvariantRightPadded ==
    (call_args.is_distributed /\ call_args.padding_side = "left") \/ C5_MaskInvariant

\* An example whose response is entirely padding.
EmptyResponses ==
    {i \in 1..Len(call_args.responses_ids) :
        \A k \in 1..Len(call_args.responses_ids[i]) : call_args.responses_ids[i][k] = PadToken}

\* C16: if any example of a rollout batch has a response that is entirely padding,
\* the batch fails with a hard error: it is never silently processed (and so never
\* appended to the replay buffer, never trained on).
C16_EmptyResponseFails ==
    (call_stage \in {"rewarded", "IndexError"} /\ EmptyResponses # {})
        => call_stage = "IndexError"

\* C16 in single-process mode, or with the padding on the right.
C16_EmptyResponseFailsRightPadded ==
    (call_args.is_distributed /\ call_args.padding_side = "left") \/ C16_EmptyResponseFails

\* process_sequences has returned and nothing has changed its result.
Processed ==
    \/ call_stage = "pad_across_processes"
    \/ call_stage = "get_responses_mask" /\ ~call_args.is_distributed

\* v without its leading, and without its trailing, pad tokens.
WithoutLeadingPad(v) ==
    SubSeq(v, SetMax({0} \cup {k \in 1..Len(v) : \A j \in 1..k : v[j] = PadToken}) + 1, Len(v))
WithoutTrailingPad(v) ==
    SubSeq(v, 1, SetMax({0} \cup {k \in 1..Len(v) : v[k] # PadToken}))

\* C17: for every batch of left-padded prompts and right-padded responses,
\* process_sequences returns for each example i, in the input order, the prompt
\* without its left padding and the response without its trailing padding; row i of
\* the packed batch is that prompt, then that response, then only pad tokens up to
\* the batch maximum length, and the attention mask is 1 exactly where the token
\* differs from the pad token.
C17_ProcessSequences ==
    Processed =>
        LET n == Len(call_args.prompts_ids)
            prompt(i) == WithoutLeadingPad(call_args.prompts_ids[i])
            response(i) == WithoutTrailingPad(call_args.responses_ids[i])
            longest == SetMax({Len(prompt(i)) + Len(response(i)) : i \in 1..n})
        IN  /\ Len(call_out.prompts_without_padding) = n
            /\ Len(call_out.responses_without_padding) = n
            /\ Len(call_out.input_ids) = n
            /\ Len(call_out.attention_mask) = n
            /\ \A i \in 1..n :
                  /\ call_out.prompts_without_padding[i] = prompt(i)
                  /\ call_out.responses_without_padding[i] = response(i)
                  /\ Len(call_out.input_ids[i]) = longest
                  /\ Len(call_out.attention_mask[i]) = longest
                  /\ \A k \in 1..longest :
                        /\ call_out.input_ids[i][k] =
                              IF k <= Len(prompt(i)) THEN prompt(i)[k]
                              ELSE IF k <= Len(prompt(i)) + Len(response(i))
                                   THEN response(i)[k - Len(prompt(i))]
                                   ELSE PadToken
                        /\ call_out.attention_mask[i][k] = 1
                              <=> call_out.input_ids[i][k] # PadToken
                        /\ call_out.attention_mask[i][k] \in {0, 1}

\* Two examples, the first with a padded prompt and the second with a padded
\* response, packed.
C17_Witness ==
    /\ Processed
    /\ Len(call_args.prompts_ids) = 2
    /\ call_args.prompts_ids[1][1] = PadToken
    /\ call_args.responses_ids[2][Len(call_args.responses_ids[2])] = PadToken
    /\ call_out.input_ids[2][Len(call_out.input_ids[2])] = PadToken

(***************************************************************************)
(* SpecReward: get_last_reward_score, compute_rewards_with_kl_penalty.     *)
(***************************************************************************)
MaxLen == 3          \* packed sequence lengths range over 2..MaxLen

\* The values the model outputs are drawn from: log-probabilities (so that
\* kl ** 2 * 0.5 is an integer) and value estimates.
LogProbs == {-2, 0}
ModelValues == {-2, 0, 2}

\* The response masks get_responses_mask produces for a sequence of length n: zeros
\* over the prompt, ones over a non-empty response, zeros over the padding.
ResponsesMasks(n) ==
    {[k \in 1..n |-> IF k > q /\ k <= q + r THEN 1 ELSE 0] :
        q \in 1..(n - 1), r \in 1..(n - 1)} \cap
    {m \in [1..n -> {0, 1}] : Nonzero(m) # {}}

\* torch.clamp(x, lo, hi)
ClampUpperOnly(x, lo, hi) == IF x > hi THEN hi ELSE x
Clamp(x, lo, hi) == IF x < lo THEN lo ELSE IF x > hi THEN hi ELSE x

\* tensor.nonzero()[-1].item()
LastNonzero(v) == SetMax(Nonzero(v))

\* get_last_reward_score, lines 360-372.
get_last_reward_score(values, responses_mask) ==
    [i \in 1..Len(values) |-> values[i][LastNonzero(responses_mask[i])]]

\* Lines 397-401: the KL estimate of one position under kl_penalty_method.
KlEstimate(kl, kl_penalty_method) ==
    IF kl_penalty_method = "abs" THEN (IF kl < 0 THEN -kl ELSE kl)
    ELSE IF kl_penalty_method = "mse" THEN (kl * kl) \div 2
    ELSE kl

\* Line 409: end_index = mask.nonzero()[-1] with mask = responses_mask[i][1:].
FirstIndex(responses_mask) == CHOOSE k \in Nonzero(Drop1(responses_mask)) :
                                  \A j \in Nonzero(Drop1(responses_mask)) : k <= j
EndIndex(responses_mask) == LastNonzero(Drop1(responses_mask))

\* Lines 406-407: rewards_score[i] is clamped in place when reward_score_clip is set
\* (<<>> models None, <<c>> the clip c).
ClippedScore(score, reward_score_clip) ==
    IF reward_score_clip # <<>>
    THEN Clamp(score, -reward_score_clip[1], reward_score_clip[1])
    ELSE score

\* compute_rewards_with_kl_penalty, lines 388-413.  kl_penalty is appended to
\* kl_penalty_all before "kl_penalty[end_index] += rewards_score[i]" adds in place,
\* and then to rewards_with_kl_penalty: both lists hold the same tensor.
compute_rewards_with_kl_penalty(ref_values, actor_log_probs, ref_log_probs, responses_mask, a) ==
    LET scores == get_last_reward_score(ref_values, responses_mask)
        batch_size == Len(scores)
        rewards_score ==
            [i \in 1..batch_size |-> ClippedScore(scores[i], a.reward_score_clip)]
        kl_penalty(i) ==
            [k \in 1..Len(actor_log_probs[i]) |->
                (-a.kl_penalty_beta) *
                KlEstimate(actor_log_probs[i][k] - ref_log_probs[i][k], a.kl_penalty_method)]
        kl_penalty_added(i) ==
            [kl_penalty(i) EXCEPT ![EndIndex(responses_mask[i])] = @ + rewards_score[i]]
    IN  [rewards_with_kl_penalty |-> [i \in 1..batch_size |-> kl_penalty_added(i)],
         kl_penalty |-> [i \in 1..batch_size |-> kl_penalty_added(i)],
         rewards_score |-> rewards_score]

RewardInit ==
    /\ RoleIdle
    /\ call_stage = "compute_rewards"
    /\ \E n \in 2..MaxLen :
         \E m \in ResponsesMasks(n), v \in [1..n -> ModelValues],
            alp \in [1..(n - 1) -> LogProbs], rlp \in [1..(n - 1) -> LogProbs],
            method \in {"identity", "abs", "mse"}, beta \in {1, 2}, clip \in {<<>>, <<1>>} :
            call_args = [ref_values |-> <<v>>,
                         actor_log_probs |-> <<alp>>,
                         ref_log_probs |-> <<rlp>>,
                         responses_mask |-> <<m>>,
                         kl_penalty_method |-> method,
                         kl_penalty_beta |-> beta,
                         reward_score_clip |-> clip]
    /\ call_out = <<>>

\* get_experience_data line 536.
ComputeRewards ==
    /\ call_stage = "compute_rewards"
    /\ call_out' = compute_rewards_with_kl_penalty(call_args.ref_values,
                       call_args.actor_log_probs, call_args.ref_log_probs,
                       call_args.responses_mask, call_args)
    /\ call_stage' = "rewarded"
    /\ UNCHANGED <<call_args, roleVars>>

RewardNext == ComputeRewards

SpecReward == RewardInit /\ [][RewardNext]_vars

\* The KL-penalty term of position k of example i, as the claims state it.
KlTerm(i, k) ==
    LET x == call_args.actor_log_probs[i][k] - call_args.ref_log_probs[i][k]
        f == CASE call_args.kl_penalty_method = "abs" -> IF x < 0 THEN -x ELSE x
               [] call_args.kl_penalty_method = "mse" -> (x * x) \div 2
               [] OTHER -> x
    IN  (-call_args.kl_penalty_beta) * f

\* C6: the reward series holds at every position -kl_penalty_beta * f(actor_log_prob -
\* ref_log_prob), f the identity, the absolute value or 0.5 * x^2, and the terminal
\* reward score is added at exactly the last index where responses_mask[i][1:] is
\* nonzero and at no other index.
C6_RewardPlacement ==
    call_stage = "rewarded" =>
        \A i \in 1..Len(call_args.responses_mask) :
            LET shifted == Drop1(call_args.responses_mask[i])
                last == CHOOSE k \in 1..Len(shifted) :
                            shifted[k] # 0 /\ \A j \in (k + 1)..Len(shifted) : shifted[j] = 0
            IN  \A k \in 1..Len(shifted) :
                    call_out.rewards_with_kl_penalty[i][k] =
                        KlTerm(i, k) + (IF k = last THEN call_out.rewards_score[i] ELSE 0)

\* A response of two tokens with a nonzero score and a nonzero KL term.
C6_Witness ==
    /\ call_stage = "rewarded"
    /\ SeqSum(call_args.responses_mask[1]) >= 2
    /\ call_out.rewards_score[1] # 0
    /\ \E k \in 1..Len(call_args.actor_log_probs[1]) : KlTerm(1, k) # 0

\* C7: rewards_score[i] is the reward-role value estimate at the last nonzero index of
\* responses_mask[i], clamped to [-c, c] when reward_score_clip = c is configured and
\* left unclamped when it is not; the same value is returned as rewards_score and
\* added into the reward series.
C7_RewardScore ==
    call_stage = "rewarded" =>
        \A i \in 1..Len(call_args.responses_mask) :
            LET mask == call_args.responses_mask[i]
                last == CHOOSE k \in 1..Len(mask) :
                            mask[k] # 0 /\ \A j \in (k + 1)..Len(mask) : mask[j] = 0
                raw == call_args.ref_values[i][last]
                c == call_args.reward_score_clip
                expected == IF c = <<>> THEN raw
                            ELSE IF raw < -c[1] THEN -c[1]
                            ELSE IF raw > c[1] THEN c[1] ELSE raw
            IN  /\ call_out.rewards_score[i] = expected
                /\ call_out.rewards_with_kl_penalty[i][last - 1] - KlTerm(i, last - 1) = expected

\* A score below -c is clamped, and one is left unclamped without a clip.
C7_Witness ==
    /\ call_stage = "rewarded"
    /\ call_args.reward_score_clip = <<1>>
    /\ call_args.ref_values[1][LastNonzero(call_args.responses_mask[1])] = -2
    /\ call_out.rewards_score[1] = -1

\* C28: the kl_penalty series returned by compute_rewards_with_kl_penalty (and logged
\* as exp_data/kl_penalty_mean|var) holds only the KL-penalty term
\* -kl_penalty_beta * f(kl) at every position, the last response position included:
\* adding the terminal reward score to the reward series does not change it.
C28_KlPenaltyOnly ==
    call_stage = "rewarded" =>
        \A i \in 1..Len(call_args.responses_mask) :
            \A k \in 1..Len(call_args.actor_log_probs[i]) :
                call_out.kl_penalty[i][k] = KlTerm(i, k)

\* C28 away from the last response position.
C28_KlPenaltyBeforeEnd ==
    call_stage = "rewarded" =>
        \A i \in 1..Len(call_args.responses_mask) :
            \A k \in 1..Len(call_args.actor_log_probs[i]) :
                k # EndIndex(call_args.responses_mask[i]) =>
                    call_out.kl_penalty[i][k] = KlTerm(i, k)

(***************************************************************************)
(* SpecWhiten: masked_whiten.  Floating-point numbers are fixed-point      *)
(* numbers with Scale units to 1; a variance has Scale * Scale units to 1. *)
(***************************************************************************)
MaxData == 3         \* the data of masked_whiten has 1..MaxData entries

Scale == 1000
\* 1e-6, in units of a variance
WhitenEps == 1

\* The largest r with r * r <= n (r below 2^15.5, so that r * r is a 32-bit integer).
RECURSIVE ISqrtIter(_, _, _)
ISqrtIter(n, lo, hi) ==
    IF hi - lo <= 1 THEN lo
    ELSE LET mid == (lo + hi) \div 2
         IN  IF mid * mid <= n THEN ISqrtIter(n, mid, hi) ELSE ISqrtIter(n, lo, mid)

ISqrt(n) == ISqrtIter(n, 0, IF n + 1 < 46341 THEN n + 1 ELSE 46341)

\* 10 * sqrt(x): the root with one more decimal digit where the product fits 32 bits.
Sqrt10(x) == IF x <= 20000000 THEN ISqrt(x * 100) ELSE ISqrt(x) * 10

\* tensor.mul(mask): elementwise product.
Mul(v, m) == [k \in 1..Len(v) |-> v[k] * m[k]]

\* Line 249: mean = data.sum() / mask.sum().
WhitenMean(data, mask) == (SeqSum(data) * Scale) \div SeqSum(mask)

\* Line 250: var = torch.sum(((data - mean) ** 2).mul(mask)) / mask.sum().
WhitenVar(data, mask, mean) ==
    SeqSum([k \in 1..Len(data) |-> (data[k] * Scale - mean) * (data[k] * Scale - mean) * mask[k]])
        \div SeqSum(mask)

\* Lines 253-254: the mean is added back when shift_mean is False.
ReAddMean_Never(shift_mean, mean) == 0
ReAddMean(shift_mean, mean) == IF ~shift_mean THEN mean ELSE 0

\* masked_whiten, lines 248-255; torch.rsqrt(var + 1e-6) is 1 / sqrt(var + 1e-6), the
\* root taken with one more decimal digit than Scale.
masked_whiten(data, mask, shift_mean) ==
    LET mean == WhitenMean(data, mask)
        var == WhitenVar(data, mask, mean)
        root == Sqrt10(var + WhitenEps)
        whitened == [k \in 1..Len(data) |->
                        ((data[k] * Scale - mean) * Scale * 10) \div root
                        + ReAddMean(shift_mean, mean)]
    IN  [mean |-> mean, var |-> var, whitened |-> whitened]

WhitenData == {-1, 0, 1, 2}

WhitenInit ==
    /\ RoleIdle
    /\ call_stage = "masked_whiten"
    /\ \E n \in 1..MaxData :
         \E d \in [1..n -> WhitenData], m \in [1..n -> {0, 1}], sm \in BOOLEAN :
            /\ Nonzero(m) # {}
            /\ call_args = [data |-> d, mask |-> m, shift_mean |-> sm]
    /\ call_out = <<>>

\* One call of masked_whiten.
MaskedWhiten ==
    /\ call_stage = "masked_whiten"
    /\ call_out' = masked_whiten(call_args.data, call_args.mask, call_args.shift_mean)
    /\ call_stage' = "whitened"
    /\ UNCHANGED <<call_args, roleVars>>

WhitenNext == MaskedWhiten

SpecWhiten == WhitenInit /\ [][WhitenNext]_vars

\* The tolerance of "approximately": 0.01.
Tolerance == Scale \div 100

Abs(x) == IF x < 0 THEN -x ELSE x

\* The masked mean of v, and the masked mean of the squares of v - centre in units of
\* Scale (v and centre in units of Scale).
MaskedMeanOf(v, mask) == SeqSum(Mul(v, mask)) \div SeqSum(mask)
MaskedMeanSquare(v, mask, centre) ==
    (SeqSum([k \in 1..Len(v) |-> (v[k] - centre) * (v[k] - centre) * mask[k]])
        \div SeqSum(mask)) \div Scale

\* C9: masked_whiten computes its statistics over the valid (mask = 1) positions only:
\* the mean it subtracts is the sum of the data at mask = 1 positions divided by the
\* number of mask = 1 positions, so changing the data at mask = 0 positions does not
\* change the whitened values at mask = 1 positions.
C9_MaskedStatistics ==
    call_stage = "whitened" =>
        /\ call_out.mean =
              (SeqSum([k \in 1..Len(call_args.data) |->
                          IF call_args.mask[k] = 1 THEN call_args.data[k] ELSE 0]) * Scale)
                  \div Cardinality({k \in 1..Len(call_args.mask) : call_args.mask[k] = 1})
        /\ \A other \in [1..Len(call_args.data) -> WhitenData] :
              (\A k \in 1..Len(other) : call_args.mask[k] = 1 => other[k] = call_args.data[k])
              => \A k \in 1..Len(other) :
                    call_args.mask[k] = 1 =>
                        masked_whiten(other, call_args.mask, call_args.shift_mean).whitened[k]
                            = call_out.whitened[k]

MaxSeqLen == 4       \* packed sequence lengths range over 2..MaxSeqLen

CriticValues == {0, 1}
Rewards == {-1, 0, 1}
Discounts == {0, 1}  \* gamma and lam

\* Line 538: critic_values[:, :-1] * responses_mask[:, 1:], one example.
MaskedCriticValues_Unmasked(critic_values, responses_mask) == DropLast(critic_values)
MaskedCriticValues(critic_values, responses_mask) ==
    Mul(DropLast(critic_values), Drop1(responses_mask))

\* Lines 423-427: lastgaelam after the steps length, length - 1, .., t of the loop.
RECURSIVE lastgaelam(_, _, _, _)
lastgaelam(values, rewards, a, t) ==
    IF t > Len(rewards) THEN 0
    ELSE LET nextvalues == IF t < Len(rewards) THEN values[t + 1] ELSE 0
             delta == rewards[t] + a.gamma * nextvalues - values[t]
         IN  delta + a.gamma * a.lam * lastgaelam(values, rewards, a, t + 1)

\* get_advantages_and_returns, lines 416-435.  The whitened advantages are in units
\* of Scale; before_norm is the local advantages of line 428.
get_advantages_and_returns(values, rewards, responses_mask, a) ==
    LET masks == [i \in 1..Len(values) |-> Drop1(responses_mask[i])]
        advantages == [i \in 1..Len(values) |->
                          [t \in 1..Len(rewards[i]) |-> lastgaelam(values[i], rewards[i], a, t)]]
        returns == [i \in 1..Len(values) |->
                       [t \in 1..Len(rewards[i]) |-> advantages[i][t] + values[i][t]]]
    IN  [before_norm |-> advantages,
         advantages |-> IF a.use_advantage_norm
                        THEN <<masked_whiten(advantages[1], masks[1], TRUE).whitened>>
                        ELSE advantages,
         returns |-> returns]

GAEInit ==
    /\ RoleIdle
    /\ call_stage = "experience"
    /\ \E n \in 2..MaxSeqLen :
         \E m \in ResponsesMasks(n), cv \in [1..n -> CriticValues],
            rw \in [1..(n - 1) -> Rewards], g \in Discounts, l \in Discounts,
            norm \in BOOLEAN :
            call_args = [critic_values |-> <<cv>>, rewards_with_kl_penalty |-> <<rw>>,
                         responses_mask |-> <<m>>,
                         args |-> [gamma |-> g, lam |-> l, use_advantage_norm |-> norm]]
    /\ call_out = <<>>

\* get_experience_data, lines 538-540.
AdvantagesAndReturns ==
    /\ call_stage = "experience"
    /\ LET critic_values == <<MaskedCriticValues(call_args.critic_values[1],
                                                 call_args.responses_mask[1])>>
           rewards_with_kl_penalty == <<Mul(call_args.rewards_with_kl_penalty[1],
                                            Drop1(call_args.responses_mask[1]))>>
           out == get_advantages_and_returns(critic_values, rewards_with_kl_penalty,
                                             call_args.responses_mask, call_args.args)
       IN  call_out' = [critic_values |-> critic_values,
                        rewards_with_kl_penalty |-> rewards_with_kl_penalty,
                        before_norm |-> out.before_norm,
                        advantages |-> out.advantages,
                        returns |-> out.returns]
    /\ call_stage' = "advantages"
    /\ UNCHANGED <<call_args, roleVars>>

GAENext == AdvantagesAndReturns

SpecGAE == GAEInit /\ [][GAENext]_vars

\* C8: at every response position t the result of get_advantages_and_returns, before
\* any normalization, satisfies advantage_t = delta_t + gamma * lam * advantage_{t+1}
\* with delta_t = reward_t + gamma * value_{t+1} - value_t, where the value and the
\* advantage beyond the example's own last real response position are 0 (also at the
\* padded positions of the tensors), and return_t = advantage_t + value_t; with
\* gamma = lam = 1 the return is the sum of the rewards from t to the terminal step.
C8_GAERecursion ==
    call_stage = "advantages" =>
        \A i \in 1..Len(call_out.returns) :
            LET value == call_out.critic_values[i]
                reward == call_out.rewards_with_kl_penalty[i]
                advantage == call_out.before_norm[i]
                return == call_out.returns[i]
                masks == Drop1(call_args.responses_mask[i])
                gamma == call_args.args.gamma
                lam == call_args.args.lam
                last == LastNonzero(masks)
                value_after(t) == IF t < last THEN value[t + 1] ELSE 0
                advantage_after(t) == IF t < last THEN advantage[t + 1] ELSE 0
            IN  /\ \A t \in (last + 1)..Len(masks) : value[t] = 0 /\ advantage[t] = 0
                /\ \A t \in Nonzero(masks) :
                      /\ advantage[t] = (reward[t] + gamma * value_after(t) - value[t])
                                        + gamma * lam * advantage_after(t)
                      /\ return[t] = advantage[t] + value[t]
                      /\ (gamma = 1 /\ lam = 1) =>
                            return[t] = SeqSum(SubSeq(reward, t, last))
                /\ ~call_args.args.use_advantage_norm =>
                      call_out.advantages[i] = advantage

\* gamma = lam = 1, two response steps before a padded position, a nonzero critic
\* value at the padded position before the masking and at a response position.
C8_Witness ==
    /\ call_stage = "advantages"
    /\ call_args.args.gamma = 1
    /\ call_args.args.lam = 1
    /\ Drop1(call_args.responses_mask[1]) = <<1, 1, 0>>
    /\ call_args.critic_values[1][3] = 1
    /\ call_out.critic_values[1][2] = 1
    /\ call_out.rewards_with_kl_penalty[1][1] = 1

(***************************************************************************)
(* SpecLoss: actor_loss and critic_loss on one row of a minibatch.         *)
(* Log-probabilities are in units of ln 2, so that exp of a difference is  *)
(* a power of 2; ratios and losses are fixed-point numbers in units of     *)
(* Scale; advantages, values and returns are integers.                     *)
(***************************************************************************)
MaxLossLen == 2      \* the rows of a minibatch have 1..MaxLossLen positions

\* torch.exp(x), x in units of ln 2, the result in units of Scale.
Exp(x) == IF x >= 0 THEN Scale * 2 ^ x ELSE Scale \div 2 ^ (-x)

\* torch.max(a, b), elementwise.
ElementMin(a, b) == [k \in 1..Len(a) |-> IF a[k] <= b[k] THEN a[k] ELSE b[k]]
ElementMax(a, b) == [k \in 1..Len(a) |-> IF a[k] >= b[k] THEN a[k] ELSE b[k]]

\* masked_mean, lines 234-239, dim = None.  The eps of 1e-8 in the denominator is
\* below the resolution of the fixed-point numbers; it turns 0 / 0 into 0.
masked_mean(data, mask) ==
    IF SeqSum(mask) = 0 THEN 0 ELSE SeqSum(Mul(data, mask)) \div SeqSum(mask)

\* actor_loss, lines 586-595; terms is torch.max(loss1, loss2).
actor_loss(actor_log_probs, mini_batch_actor_log_probs, advantages, mask, a) ==
    LET ratio == [k \in 1..Len(mask) |->
                     Exp((mini_batch_actor_log_probs[k] - actor_log_probs[k]) * mask[k])]
        loss1 == [k \in 1..Len(mask) |-> -advantages[k] * ratio[k]]
        loss2 == [k \in 1..Len(mask) |->
                     -advantages[k] * Clamp(ratio[k], Scale - a.ratio_clip, Scale + a.ratio_clip)]
        terms == ElementMax(loss1, loss2)
    IN  [loss |-> masked_mean(terms, mask), ratio |-> ratio, terms |-> terms]

\* Lines 602-606: the new values clamped around the old ones.
critic_values_unclipped(critic_values, mini_batch_critic_values, a) == mini_batch_critic_values
critic_values_clip(critic_values, mini_batch_critic_values, a) ==
    [k \in 1..Len(critic_values) |->
        Clamp(mini_batch_critic_values[k], critic_values[k] - a.value_clip,
              critic_values[k] + a.value_clip)]

\* critic_loss, lines 598-611; terms is torch.max(values_error, values_clip_error),
\* the loss is in units of Scale.
critic_loss(critic_values, mini_batch_critic_values, returns, mask, a) ==
    LET clipped == critic_values_clip(critic_values, mini_batch_critic_values, a)
        values_error == [k \in 1..Len(mask) |->
                            (mini_batch_critic_values[k] - returns[k])
                            * (mini_batch_critic_values[k] - returns[k])]
        values_clip_error == [k \in 1..Len(mask) |->
                                 (clipped[k] - returns[k]) * (clipped[k] - returns[k])]
        terms == ElementMax(values_error, values_clip_error)
    IN  [loss |-> masked_mean([k \in 1..Len(mask) |-> terms[k] * Scale], mask) \div 2,
         values_error |-> values_error, terms |-> terms]

LossLogProbs == {-1, 0, 1}
LossAdvantages == {-2, 0, 3}
RatioClips == {200, 600}
LossValues == {0, 1, 4}
ValueClips == {1, 2}

\* train_step is about to call actor_loss (line 795) or critic_loss (line 798).
LossInit ==
    /\ RoleIdle
    /\ call_out = <<>>
    /\ \E n \in 1..MaxLossLen : \E m \in [1..n -> {0, 1}] :
         \/ /\ call_stage = "actor_loss"
            /\ \E old \in [1..n -> LossLogProbs], new \in [1..n -> LossLogProbs],
                  adv \in [1..n -> LossAdvantages], c \in RatioClips :
                  call_args = [actor_log_probs |-> old, mini_batch_actor_log_probs |-> new,
                               advantages |-> adv, mask |-> m, args |-> [ratio_clip |-> c]]
         \/ /\ call_stage = "critic_loss"
            /\ \E old \in [1..n -> LossValues], new \in [1..n -> LossValues],
                  ret \in [1..n -> LossValues], c \in ValueClips :
                  call_args = [critic_values |-> old, mini_batch_critic_values |-> new,
                               returns |-> ret, mask |-> m, args |-> [value_clip |-> c]]

ActorLoss ==
    /\ call_stage = "actor_loss"
    /\ call_out' = actor_loss(call_args.actor_log_probs, call_args.mini_batch_actor_log_probs,
                              call_args.advantages, call_args.mask, call_args.args)
    /\ call_stage' = "actor_loss_done"
    /\ UNCHANGED <<call_args, roleVars>>

CriticLoss ==
    /\ call_stage = "critic_loss"
    /\ call_out' = critic_loss(call_args.critic_values, call_args.mini_batch_critic_values,
                               call_args.returns, call_args.mask, call_args.args)
    /\ call_stage' = "critic_loss_done"
    /\ UNCHANGED <<call_args, roleVars>>

LossNext ==
    \/ ActorLoss
    \/ CriticLoss

SpecLoss == LossInit /\ [][LossNext]_vars

\* C11: at every position the actor loss term max(-A * ratio, -A * clamp(ratio,
\* 1 - ratio_clip, 1 + ratio_clip)) is at least the unclipped -A * ratio; when A > 0 and
\* ratio > 1 + ratio_clip, and when A < 0 and ratio < 1 - ratio_clip, the term is the
\* clipped value; the loss is the masked mean of these per-element maxima.
C11_ClippedSurrogate ==
    call_stage = "actor_loss_done" =>
        LET A == call_args.advantages
            ratio == call_out.ratio
            lo == Scale - call_args.args.ratio_clip
            hi == Scale + call_args.args.ratio_clip
            valid == {k \in 1..Len(A) : call_args.mask[k] = 1}
            term(k) == call_out.terms[k]
        IN  /\ \A k \in 1..Len(A) :
                  /\ ratio[k] = Exp((call_args.mini_batch_actor_log_probs[k]
                                     - call_args.actor_log_probs[k]) * call_args.mask[k])
                  /\ term(k) >= -A[k] * ratio[k]
                  /\ (A[k] > 0 /\ ratio[k] > hi) => term(k) = -A[k] * hi
                  /\ (A[k] < 0 /\ ratio[k] < lo) => term(k) = -A[k] * lo
                  /\ term(k) \in {-A[k] * ratio[k],
                                  -A[k] * (IF ratio[k] < lo THEN lo
                                           ELSE IF ratio[k] > hi THEN hi ELSE ratio[k])}
            /\ valid # {} =>
                  call_out.loss = SeqSum([k \in 1..Len(A) |-> IF k \in valid THEN term(k) ELSE 0])
                                      \div Cardinality(valid)

\* Both clipped cases at valid positions of one row: A > 0 with ratio > 1 + ratio_clip
\* and A < 0 with ratio < 1 - ratio_clip.
C11_Witness ==
    /\ call_stage = "actor_loss_done"
    /\ \E k \in 1..Len(call_args.mask) :
          /\ call_args.mask[k] = 1 /\ call_args.advantages[k] > 0
          /\ call_out.ratio[k] > Scale + call_args.args.ratio_clip
    /\ \E k \in 1..Len(call_args.mask) :
          /\ call_args.mask[k] = 1 /\ call_args.advantages[k] < 0
          /\ call_out.ratio[k] < Scale - call_args.args.ratio_clip

\* C12: critic_loss is 0.5 times the masked mean of the per-element max of
\* (newValue - return)^2 and (clamp(newValue, oldValue - value_clip, oldValue +
\* value_clip) - return)^2; at every element the selected term is at least the
\* unclipped squared error.
C12_ValueClipping ==
    call_stage = "critic_loss_done" =>
        LET old == call_args.critic_values
            new == call_args.mini_batch_critic_values
            ret == call_args.returns
            c == call_args.args.value_clip
            valid == {k \in 1..Len(old) : call_args.mask[k] = 1}
            clamped(k) == IF new[k] < old[k] - c THEN old[k] - c
                          ELSE IF new[k] > old[k] + c THEN old[k] + c ELSE new[k]
            sq(x) == x * x
            larger(k) == IF sq(new[k] - ret[k]) >= sq(clamped(k) - ret[k])
                         THEN sq(new[k] - ret[k]) ELSE sq(clamped(k) - ret[k])
        IN  /\ \A k \in 1..Len(old) :
                  /\ call_out.terms[k] = larger(k)
                  /\ call_out.terms[k] >= sq(new[k] - ret[k])
                  /\ call_out.values_error[k] = sq(new[k] - ret[k])
            /\ valid # {} =>
                  call_out.loss =
                      (Scale * SeqSum([k \in 1..Len(old) |-> IF k \in valid THEN larger(k) ELSE 0]))
                          \div (2 * Cardinality(valid))

\* Two valid positions, the clipped error selected at one and the unclipped at the
\* other: a max per batch would select the same kind at both.
C12_Witness ==
    /\ call_stage = "critic_loss_done"
    /\ \E k, j \in 1..Len(call_args.mask) :
          /\ call_args.mask[k] = 1 /\ call_args.mask[j] = 1
          /\ call_out.terms[k] > call_out.values_error[k]
          /\ call_out.terms[j] = call_out.values_error[j]
          /\ \E x \in {call_args.mini_batch_critic_values[j]} :
                x > call_args.critic_values[j] + call_args.args.value_clip

(***************************************************************************)
(* SpecTrain, SpecCkpt: the loops of train with get_mini_dataset,          *)
(* train_step's update of the minibatch and save_checkpoint, in one        *)
(* process.  call_args holds the trainer's arguments and the dataloader,   *)
(* call_out the locals of train and the checkpoint files written.  The     *)
(* dataloader is the sequence of the batch sizes of all epochs; a tensor   *)
(* slice is the record it views, its offset and its rows.                  *)
(***************************************************************************)
MaxBatches == 2      \* the dataloader yields 1..MaxBatches batches
MaxBatchSize == 3    \* of 1..MaxBatchSize examples each

\* The keys of the dict get_experience_data returns (lines 541-557), of the auxiliary
\* batch (line 905) and of the dict train_step returns (lines 824-833).
ExperienceKeys ==
    {"prompts_ids", "responses_ids", "responses_mask", "sequences_ids", "sequences_mask",
     "actor_log_probs", "ref_log_probs", "rewards_with_kl_penalty", "rewards_score",
     "kl_penalty", "critic_values", "advantages", "returns", "actor_ce_loss", "ref_ce_loss"}
ExtraKeys == {"input_ids", "labels"}
ResultKeys ==
    {"all_loss", "actor_loss", "critic_loss", "extra_loss", "entropy", "ratio", "values_error"}

\* v[index : index + n] of a tensor of record rec with size rows (index from 0).
Slice(rec, size, index, n) ==
    [rec |-> rec, offset |-> index,
     rows |-> {r \in 1..size : r > index /\ r <= index + n}]

\* Lines 569-580: the minibatch cut at index out of one item of the buffer.
MiniBatch(item, index, a) ==
    [k \in ExperienceKeys \cup (IF item.extra THEN ExtraKeys ELSE {}) |->
        Slice(item.rec, item.size, index, a.per_device_mini_train_batch_size)]

\* Lines 567-581: the while loop over one item, from index on.
RECURSIVE SlicesFrom(_, _, _, _)
SlicesFrom(item, index, batch_size, a) ==
    IF index < batch_size
    THEN <<MiniBatch(item, index, a)>>
         \o SlicesFrom(item, index + a.per_device_mini_train_batch_size, batch_size, a)
    ELSE <<>>

\* get_mini_dataset, lines 561-583: batch_size is that of the first item.
RECURSIVE get_mini_dataset(_, _, _)
get_mini_dataset(data_buffer, batch_size, a) ==
    IF data_buffer = <<>> THEN <<>>
    ELSE SlicesFrom(Head(data_buffer), 0, batch_size, a)
         \o get_mini_dataset(Tail(data_buffer), batch_size, a)

\* random.shuffle(x): the orders x can be left in.
Shuffles(x) ==
    {[k \in 1..Len(x) |-> x[f[k]]] :
        f \in {g \in [1..Len(x) -> 1..Len(x)] :
                  \A i, j \in 1..Len(x) : i # j => g[i] # g[j]}}

\* dict.update(other)
Update_Replace(dict, other) == other
Update(dict, other) ==
    [k \in DOMAIN dict \cup DOMAIN other |-> IF k \in DOMAIN other THEN other[k] ELSE dict[k]]

\* The dict train_step returns at step, lines 824-833.
StepResult(step) == [k \in ResultKeys |-> [step |-> step]]

\* Line 893: len(data_buffer) == mini_data_buffer_nums.
BufferFull_Never(data_buffer, a) == FALSE
BufferFull(data_buffer, a) == Len(data_buffer) = a.mini_data_buffer_nums

\* Lines 918 and 926: update_steps = step / gradient_accumulation_steps is positive and
\* update_steps % save_steps == 0, the quotient being a float.
CheckpointDue_EverySaveSteps(step, a) == step > 0 /\ step % a.save_steps = 0
CheckpointDue(step, a) ==
    /\ step > 0
    /\ step % a.gradient_accumulation_steps = 0
    /\ (step \div a.gradient_accumulation_steps) % a.save_steps = 0

\* save_checkpoint, lines 623-673: the directory, the adapter whose parameters are
\* saved and whether v_head.<param> keys are added (lines 648-652: the model has a
\* v_head; actor_model, a PeftModel of the causal LM, has none).
save_checkpoint(model, output_dir, step, adapter_name) ==
    [model |-> model, dir |-> <<output_dir, "checkpoint", step>>, adapter |-> adapter_name,
     v_head |-> model \in {"co_model", "critic_model"}]

\* Lines 928-936, in the main process.
Checkpoints(step, a) ==
    LET update_steps == step \div a.gradient_accumulation_steps
    IN  IF a.use_co_model
        THEN {save_checkpoint("co_model", "output_dir", update_steps, "default")}
             \cup (IF a.use_multi_adapters
                   THEN {save_checkpoint("co_model", "critic_output_dir", update_steps, "critic")}
                   ELSE {})
        ELSE {save_checkpoint("actor_model", "output_dir", update_steps, "default"),
              save_checkpoint("critic_model", "critic_output_dir", update_steps, "default")}

MiniBatchSizes == {2}
BufferNums == {1, 2}
PpoEpochs == {1, 2}
Modes == {<<FALSE, FALSE>>, <<TRUE, FALSE>>, <<TRUE, TRUE>>}   \* use_co_model, use_multi_adapters

\* The locals of train at line 873, no checkpoint written.
TrainLocals ==
    [i |-> 0, data_buffer |-> <<>>, mini_dataset |-> <<>>, flattened |-> <<>>,
     ppo_epoch |-> 0, j |-> 0, step |-> 0, visits |-> <<>>, checkpoints |-> {}]

TrainArgs(mb, nums, epochs, gas, save, mode) ==
    [per_device_mini_train_batch_size |-> mb, mini_data_buffer_nums |-> nums,
     ppo_epochs |-> epochs, gradient_accumulation_steps |-> gas, save_steps |-> save,
     use_co_model |-> mode[1], use_multi_adapters |-> mode[2]]

\* SpecTrain: any batch sizes, one optimizer update per step, one adapter.
TrainInit ==
    /\ RoleIdle
    /\ call_stage = "loop"
    /\ \E dl \in SeqsOf(1..MaxBatchSize, 1, MaxBatches), mb \in MiniBatchSizes,
          nums \in BufferNums, epochs \in PpoEpochs,
          mode \in {m \in Modes : ~m[2]}, extra \in BOOLEAN :
          call_args = [args |-> TrainArgs(mb, nums, epochs, 1, 1, mode),
                       dataloader |-> dl, has_extra |-> extra]
    /\ call_out = TrainLocals

\* SpecCkpt: full batches of one minibatch each, any accumulation and save cadence.
CkptInit ==
    /\ RoleIdle
    /\ call_stage = "loop"
    /\ \E dl \in [1..MaxBatches -> {2}], nums \in BufferNums, epochs \in PpoEpochs,
          gas \in {1, 2}, save \in {1, 2}, mode \in Modes, extra \in BOOLEAN :
          call_args = [args |-> TrainArgs(2, nums, epochs, gas, save, mode),
                       dataloader |-> dl, has_extra |-> extra]
    /\ call_out = TrainLocals

\* train lines 881-891: the next batch is rolled out and its record appended.
Rollout ==
    /\ call_stage = "loop"
    /\ call_out.i < Len(call_args.dataloader)
    /\ call_out' = [call_out EXCEPT
                      !.i = @ + 1,
                      !.data_buffer = Append(@, [rec |-> call_out.i + 1,
                                                 size |-> call_args.dataloader[call_out.i + 1],
                                                 extra |-> call_args.has_extra])]
    /\ call_stage' = "appended"
    /\ UNCHANGED <<call_args, roleVars>>

\* train lines 893-899: the full buffer is flattened, shuffled and cleared.
Flatten ==
    /\ call_stage = "appended"
    /\ BufferFull(call_out.data_buffer, call_args.args)
    /\ LET mini_dataset == get_mini_dataset(call_out.data_buffer,
                                            call_out.data_buffer[1].size, call_args.args)
       IN  \E shuffled \in Shuffles(mini_dataset) :
              call_out' = [call_out EXCEPT !.data_buffer = <<>>,
                                           !.mini_dataset = shuffled,
                                           !.flattened = mini_dataset,
                                           !.ppo_epoch = 0, !.j = 0, !.visits = <<>>]
    /\ call_stage' = "epoch"
    /\ UNCHANGED <<call_args, roleVars>>

\* train line 893, the buffer not full: the next batch of the dataloader.
BufferNotFull ==
    /\ call_stage = "appended"
    /\ ~BufferFull(call_out.data_buffer, call_args.args)
    /\ call_stage' = "loop"
    /\ UNCHANGED <<call_args, call_out, roleVars>>

\* train lines 901-936: one train_step on mini_dataset[j], the update of the minibatch
\* with its result, and the checkpoints.  Line 781 raises with the shared model and
\* no auxiliary data.
TrainStep ==
    /\ call_stage = "epoch"
    /\ LET batch_mini_data == call_out.mini_dataset[call_out.j + 1]
           step == call_out.step + 1
       IN  IF call_args.args.use_co_model /\ ~call_args.has_extra
           THEN /\ call_out' = [call_out EXCEPT !.step = step]
                /\ call_stage' = "failed"
           ELSE /\ call_out' =
                      [call_out EXCEPT
                          !.step = step,
                          !.mini_dataset[call_out.j + 1] =
                              Update(batch_mini_data, StepResult(step)),
                          !.visits = Append(@, batch_mini_data["sequences_ids"]),
                          !.checkpoints = @ \cup (IF CheckpointDue(step, call_args.args)
                                                  THEN Checkpoints(step, call_args.args)
                                                  ELSE {}),
                          !.j = @ + 1]
                /\ call_stage' = IF call_out.j + 1 = Len(call_out.mini_dataset)
                                 THEN "epoch_end" ELSE "epoch"
    /\ UNCHANGED <<call_args, roleVars>>

\* train lines 939-940 and 899: the reshuffle, then the next inner epoch or the next
\* batch of the dataloader.
EpochEnd ==
    /\ call_stage = "epoch_end"
    /\ \E shuffled \in Shuffles(call_out.mini_dataset) :
          call_out' = [call_out EXCEPT !.mini_dataset = shuffled,
                                       !.ppo_epoch = @ + 1, !.j = 0, !.visits = <<>>]
    /\ call_stage' = IF call_out.ppo_epoch + 1 = call_args.args.ppo_epochs
                     THEN "loop" ELSE "epoch"
    /\ UNCHANGED <<call_args, roleVars>>

\* train lines 942-943: the dataloader is exhausted.
EndTraining ==
    /\ call_stage = "loop"
    /\ call_out.i = Len(call_args.dataloader)
    /\ call_stage' = "done"
    /\ UNCHANGED <<call_args, call_out, roleVars>>

TrainNext ==
    \/ Rollout
    \/ Flatten
    \/ BufferNotFull
    \/ TrainStep
    \/ EpochEnd
    \/ EndTraining

SpecTrain == TrainInit /\ [][TrainNext]_vars

SpecCkpt == CkptInit /\ [][TrainNext]_vars

TrainStages == {"loop", "appended", "epoch", "epoch_end", "done", "failed"}

\* C13: every minibatch produced by get_mini_dataset contains exactly
\* per_device_mini_train_batch_size examples (a trailing partial slice of a record is
\* dropped, not emitted as a smaller minibatch).
C13_FullMiniBatches ==
    call_stage \in {"epoch", "epoch_end"} =>
        \A k \in 1..Len(call_out.flattened) :
            Cardinality(call_out.flattened[k]["sequences_ids"].rows)
                = call_args.args.per_device_mini_train_batch_size

\* The records the minibatches of a flattened set are cut from.
RecordsOf(mini_dataset) ==
    {mini_dataset[k]["sequences_ids"].rec : k \in 1..Len(mini_dataset)}

\* C14: the replay buffer never holds more than mini_data_buffer_nums records; it is
\* flattened exactly when it reaches that count and is empty immediately afterwards;
\* no train_step runs on data of a record before the buffer containing it has filled
\* and been flattened, and no rollout is collected while inner PPO epochs of a
\* flattened set are still running.
C14_BufferDiscipline ==
    call_stage \in TrainStages =>
        LET nums == call_args.args.mini_data_buffer_nums
            buffered == {call_out.data_buffer[k].rec : k \in 1..Len(call_out.data_buffer)}
        IN  /\ Len(call_out.data_buffer) <= nums
            /\ Len(call_out.data_buffer) = nums => call_stage = "appended"
            /\ call_stage \in {"epoch", "epoch_end"} =>
                  /\ call_out.data_buffer = <<>>
                  /\ call_out.ppo_epoch < call_args.args.ppo_epochs
                  /\ Cardinality(RecordsOf(call_out.flattened)) = nums
            /\ call_out.step > 0 =>
                  /\ RecordsOf(call_out.mini_dataset) \cap buffered = {}
                  /\ RecordsOf(call_out.mini_dataset) = RecordsOf(call_out.flattened)
                  /\ RecordsOf(call_out.flattened) \subseteq 1..call_out.i
            /\ call_stage \in {"loop", "appended", "done"} =>
                  \/ call_out.flattened = <<>>
                  \/ call_out.ppo_epoch = call_args.args.ppo_epochs

\* A buffer of two records was flattened into three minibatches or more and the
\* train steps of an inner epoch have run on them.
C14_Witness ==
    /\ call_stage = "epoch_end"
    /\ call_args.args.mini_data_buffer_nums = 2
    /\ Len(call_out.flattened) >= 3
    /\ call_out.step >= 3

\* The rollout-time fields of a minibatch.
RolloutFields(batch_mini_data) ==
    [k \in DOMAIN batch_mini_data \ ResultKeys |-> batch_mini_data[k]]

\* C15: after a flatten, each inner epoch calls train_step exactly once on every
\* minibatch of the same flattened set (only the order changes), and the rollout-time
\* fields of each minibatch are identical in every inner epoch: train_step and
\* record_logs only add result fields.
C15_FrozenMiniBatches ==
    call_stage \in {"epoch", "epoch_end"} =>
        LET flattened == call_out.flattened
            mini_dataset == call_out.mini_dataset
            visits == call_out.visits
        IN  /\ Len(mini_dataset) = Len(flattened)
            /\ {RolloutFields(mini_dataset[k]) : k \in 1..Len(mini_dataset)}
                  = {flattened[k] : k \in 1..Len(flattened)}
            /\ \A k \in 1..Len(flattened) : DOMAIN flattened[k] \cap ResultKeys = {}
            /\ Len(visits) = call_out.j
            /\ \A k, l \in 1..Len(visits) : k # l => visits[k] # visits[l]
            /\ \A k \in 1..Len(visits) :
                  \E l \in 1..Len(flattened) : visits[k] = flattened[l]["sequences_ids"]
            /\ call_stage = "epoch_end" => Len(visits) = Len(flattened)

\* The end of the second inner epoch over three minibatches, in another order than
\* the flatten produced.
C15_Witness ==
    /\ call_stage = "epoch_end"
    /\ call_out.ppo_epoch = 1
    /\ Len(call_out.flattened) >= 3
    /\ \E k \in 1..Len(call_out.flattened) :
          RolloutFields(call_out.mini_dataset[k]) # call_out.flattened[k]

\* The optimizer updates completed, and those at which a checkpoint is due.
CompletedSteps == IF call_stage = "failed" THEN call_out.step - 1 ELSE call_out.step

SaveSteps ==
    {n \in 1..CompletedSteps :
        \E k \in 1..CompletedSteps :
            /\ n * call_args.args.gradient_accumulation_steps = k
            /\ \E q \in 1..n : q * call_args.args.save_steps = n}

\* The checkpoints of one save point: model, output directory, adapter.
CheckpointRoles ==
    IF call_args.args.use_co_model
    THEN {<<"co_model", "output_dir", "default">>}
         \cup (IF call_args.args.use_multi_adapters
               THEN {<<"co_model", "critic_output_dir", "critic">>} ELSE {})
    ELSE {<<"actor_model", "output_dir", "default">>,
          <<"critic_model", "critic_output_dir", "default">>}

\* A checkpoint is written exactly when update_steps is a positive integer multiple of
\* save_steps, into checkpoint-<update_steps>, one per trainable role.
CheckpointCadence ==
    /\ {c.dir[3] : c \in call_out.checkpoints} = SaveSteps
    /\ \A c \in call_out.checkpoints : c.dir[2] = "checkpoint"
    /\ \A n \in SaveSteps :
          {<<c.model, c.dir[1], c.adapter>> : c \in {d \in call_out.checkpoints : d.dir[3] = n}}
              = CheckpointRoles

C29_SlicedByOwnBatchSize ==
    call_stage \in {"epoch", "epoch_end"} =>
        LET flattened == call_out.flattened
            mb == call_args.args.per_device_mini_train_batch_size
            rows(k) == flattened[k]["sequences_ids"].rows
            rec(k) == flattened[k]["sequences_ids"].rec
        IN  /\ \A k \in 1..Len(flattened) : rows(k) # {}
            /\ \A r \in RecordsOf(flattened) :
                  \A row \in 1..((call_args.dataloader[r] \div mb) * mb) :
                      Cardinality({k \in 1..Len(flattened) : rec(k) = r /\ row \in rows(k)}) = 1

\* C29 for buffers whose records have the batch size of the first one.
C29_SlicedByFirstBatchSize ==
    call_stage \in {"epoch", "epoch_end"} =>
        \/ \E r \in RecordsOf(call_out.flattened), q \in RecordsOf(call_out.flattened) :
              call_args.dataloader[r] # call_args.dataloader[q]
        \/ C29_SlicedByOwnBatchSize

(***************************************************************************)
(* SpecDist: the inner loop of train in several processes.  call_out holds *)
(* per process its position, its step and the collectives it has entered,  *)
(* and the checkpoints written.  A collective (the gradient all-reduce of  *)
(* the wrapped model, the barrier of print_logs) is entered by a process   *)
(* and left once every process has entered it.                             *)
(***************************************************************************)
MaxRank == 1         \* the processes are 0..MaxRank; 0 is the main process
MaxDistSteps == 3    \* train steps of the run

Ranks == 0..MaxRank

\* is_world_process_zero()
is_world_process_zero(rank) == rank = 0

\* Every process has entered the collective that rank entered last.
CollectiveComplete(rank) ==
    \A q \in Ranks : call_out.entered[q] >= call_out.entered[rank]

DistInit ==
    /\ RoleIdle
    /\ call_stage = "distributed"
    /\ \E gas \in {1, 2}, save \in {1, 2}, mode \in Modes :
          call_args = [args |-> TrainArgs(2, 1, 1, gas, save, mode), has_extra |-> TRUE,
                       steps |-> MaxDistSteps]
    /\ call_out = [pc |-> [r \in Ranks |-> "train_step"], step |-> [r \in Ranks |-> 0],
                   entered |-> [r \in Ranks |-> 0], checkpoints |-> {}]

\* A step of one process leaves everything but call_out alone.
InProcess == call_stage = "distributed" /\ UNCHANGED <<call_stage, call_args, roleVars>>

\* train lines 901-910, train_step lines 760-803: step += 1 and the forward passes.
DistForward ==
    \E rank \in Ranks :
    /\ InProcess
    /\ call_out.pc[rank] = "train_step"
    /\ call_out.step[rank] < call_args.steps
    /\ call_out' = [call_out EXCEPT !.step[rank] = @ + 1, !.pc[rank] = "backward"]

\* train_step line 806: accelerator.backward(loss).  The separate models are called
\* through the prepared (wrapped) model, whose backward all-reduces the gradients
\* on the last step of an accumulation; the shared model is called unwrapped
\* (line 779-780) and reduces nothing.
DistBackward ==
    \E rank \in Ranks :
    /\ InProcess
    /\ call_out.pc[rank] = "backward"
    /\ IF /\ ~call_args.args.use_co_model
          /\ call_out.step[rank] % call_args.args.gradient_accumulation_steps = 0
       THEN call_out' = [call_out EXCEPT !.entered[rank] = @ + 1, !.pc[rank] = "all_reduce"]
       ELSE call_out' = [call_out EXCEPT !.pc[rank] = "logs"]

\* The gradient all-reduce completes; train_step lines 808-833.
DistAllReduced ==
    \E rank \in Ranks :
    /\ InProcess
    /\ call_out.pc[rank] = "all_reduce"
    /\ CollectiveComplete(rank)
    /\ call_out' = [call_out EXCEPT !.pc[rank] = "logs"]

\* train lines 921-923 and print_logs line 736: the barrier, on the last step of an
\* accumulation.
DistLogs ==
    \E rank \in Ranks :
    /\ InProcess
    /\ call_out.pc[rank] = "logs"
    /\ IF call_out.step[rank] % call_args.args.gradient_accumulation_steps = 0
       THEN call_out' = [call_out EXCEPT !.entered[rank] = @ + 1, !.pc[rank] = "barrier"]
       ELSE call_out' = [call_out EXCEPT !.pc[rank] = "save"]

\* print_logs lines 737-757 after the barrier.
DistLogged ==
    \E rank \in Ranks :
    /\ InProcess
    /\ call_out.pc[rank] = "barrier"
    /\ CollectiveComplete(rank)
    /\ call_out' = [call_out EXCEPT !.pc[rank] = "save"]

\* train lines 926-928: the main process starts writing a due checkpoint; every other
\* process goes on to the next minibatch.
DistSave ==
    \E rank \in Ranks :
    /\ InProcess
    /\ call_out.pc[rank] = "save"
    /\ call_out' = [call_out EXCEPT
                      !.pc[rank] = IF /\ CheckpointDue(call_out.step[rank], call_args.args)
                                      /\ is_world_process_zero(rank)
                                   THEN "writing" ELSE "train_step"]

\* train lines 929-936: the checkpoints are written.
DistWritten ==
    \E rank \in Ranks :
    /\ InProcess
    /\ call_out.pc[rank] = "writing"
    /\ call_out' = [call_out EXCEPT
                      !.checkpoints = @ \cup {[rank |-> rank, file |-> c] :
                                                 c \in Checkpoints(call_out.step[rank],
                                                                   call_args.args)},
                      !.pc[rank] = "train_step"]

DistNext ==
    \/ DistForward
    \/ DistBackward
    \/ DistAllReduced
    \/ DistLogs
    \/ DistLogged
    \/ DistSave
    \/ DistWritten

SpecDist == DistInit /\ [][DistNext]_vars

\* C19: checkpoint writes are performed only by the coordinating (rank-0) process,
\* and every other process waits at the checkpoint boundary: no other process runs a
\* later train_step before the coordinating process has finished writing the
\* checkpoint.
C19_CheckpointBarrier ==
    call_stage = "distributed" =>
        /\ \A c \in call_out.checkpoints : c.rank = 0
        /\ \A rank \in Ranks \ {0} :
              \A s \in 1..(call_out.step[rank] - 1) :
                  CheckpointDue(s, call_args.args) =>
                      \E c \in call_out.checkpoints :
                          c.file.dir[3] = s \div call_args.args.gradient_accumulation_steps

\* The writes are performed by the main process only.
C19_OnlyMainProcessWrites ==
    call_stage = "distributed" => \A c \in call_out.checkpoints : c.rank = 0

(***************************************************************************)
(* SpecConfig: the construction of the engines (PPOEngine, PPOEngine_CO)   *)
(* and of the trainer from the model and training arguments.  A path or a  *)
(* target-module list is modelled by whether it is given (TRUE) or None    *)
(* (FALSE).  call_args holds the arguments, call_out the error raised.     *)
(***************************************************************************)
NoError == "none"

\* from_pretrained / load_adapter of a path that is None raises in the library.
FromPretrained(path) == IF path THEN NoError ELSE "TypeError"

\* <target>.split(',') of a list that is None.
Split(target) == IF target THEN NoError ELSE "AttributeError"

\* The first error of a sequence of steps evaluated in order.
RECURSIVE FirstError(_)
FirstError(steps) == IF steps = <<>> THEN NoError ELSE IF Head(steps) # NoError THEN Head(steps) ELSE FirstError(Tail(steps))

_init_actor(a) ==
    FirstError(<<FromPretrained(a.sft_model_path),
                 IF a.actor_peft_path THEN NoError ELSE Split(a.actor_lora_target)>>)

_init_critic(a) ==
    FirstError(<<FromPretrained(a.sft_model_path),
                 FromPretrained(a.reward_lora_path),
                 IF a.critic_peft_path THEN NoError ELSE Split(a.critic_lora_target)>>)

\* PPOEngine.__init__, lines 60-74.
PPOEngine(a) ==
    IF ~a.sft_model_path THEN "ValueError"
    ELSE IF _init_actor(a) # NoError THEN _init_actor(a)
    ELSE IF ~a.reward_model_path /\ ~a.reward_lora_path THEN "ValueError"
    ELSE _init_critic(a)

\* PPOEngine_CO.create_model, lines 200-243.
create_model(a) ==
    FirstError(<<FromPretrained(a.sft_model_path),
                 FromPretrained(a.reward_lora_path),
                 IF a.peft_path
                 THEN IF a.use_multi_adapters THEN FromPretrained(a.critic_peft_path) ELSE NoError
                 ELSE FirstError(<<Split(a.lora_target),
                                   IF a.use_multi_adapters THEN Split(a.critic_lora_target)
                                   ELSE NoError>>)>>)

ConfigFields ==
    {"sft_model_path", "reward_model_path", "reward_lora_path", "actor_peft_path",
     "critic_peft_path", "peft_path", "actor_lora_target", "critic_lora_target",
     "lora_target", "use_co_model", "use_multi_adapters"}

ConfigInit ==
    /\ RoleIdle
    /\ call_stage = "arguments"
    /\ call_args \in [ConfigFields -> BOOLEAN]
    /\ call_out = [error |-> NoError]

\* The separate-model engine is built.
EngineInit ==
    /\ call_stage = "arguments"
    /\ ~call_args.use_co_model
    /\ call_out' = [error |-> PPOEngine(call_args)]
    /\ call_stage' = IF PPOEngine(call_args) = NoError THEN "engine" ELSE "raised"
    /\ UNCHANGED <<call_args, roleVars>>

\* The shared-backbone engine is built.
EngineCOInit ==
    /\ call_stage = "arguments"
    /\ call_args.use_co_model
    /\ call_out' = [error |-> create_model(call_args)]
    /\ call_stage' = IF create_model(call_args) = NoError THEN "engine" ELSE "raised"
    /\ UNCHANGED <<call_args, roleVars>>

\* PPOPeftTrainer.__init__ takes the models of the engine; it reads use_co_model
\* and never use_multi_adapters.
TrainerInit ==
    /\ call_stage = "engine"
    /\ call_stage' = "trainer"
    /\ UNCHANGED <<call_args, call_out, roleVars>>

\* train starts its first iteration.
TrainStart ==
    /\ call_stage = "trainer"
    /\ call_stage' = "training"
    /\ UNCHANGED <<call_args, call_out, roleVars>>

ConfigNext ==
    \/ EngineInit
    \/ EngineCOInit
    \/ TrainerInit
    \/ TrainStart

SpecConfig == ConfigInit /\ [][ConfigNext]_vars

\* The configuration errors: a role path the mode needs is missing, a target-module
\* list the mode needs is missing, or the mode flags are incompatible.
MissingPath(a) ==
    \/ ~a.sft_model_path
    \/ ~a.reward_lora_path
    \/ a.use_co_model /\ a.use_multi_adapters /\ a.peft_path /\ ~a.critic_peft_path

MissingTargets(a) ==
    IF a.use_co_model
    THEN ~a.peft_path /\ (~a.lora_target \/ (a.use_multi_adapters /\ ~a.critic_lora_target))
    ELSE \/ ~a.actor_peft_path /\ ~a.actor_lora_target
         \/ ~a.critic_peft_path /\ ~a.critic_lora_target

IncompatibleFlags(a) == a.use_multi_adapters /\ ~a.use_co_model

\* C20: every configuration error is raised before any training iteration starts:
\* a missing SFT model path or missing reward-model artifacts, missing LoRA
\* target-module lists, and use_multi_adapters without use_co_model each abort
\* the construction, so no such configuration gets an engine, a trainer or a
\* training iteration.
C20_ConfigurationErrors ==
    (MissingPath(call_args) \/ MissingTargets(call_args) \/ IncompatibleFlags(call_args))
        => call_stage \in {"arguments", "raised"}

\* C20 without the flag combination: missing paths and target lists abort the
\* construction of either engine.
C20_MissingArtifactsRaise ==
    (MissingPath(call_args) \/ MissingTargets(call_args))
        => call_stage \in {"arguments", "raised"}

(***************************************************************************)
(* SpecStep: train_step, stage by stage, inside the epoch, dataloader,     *)
(* buffer and inner-epoch loops of train.  Records and minibatches are     *)
(* counted, not held; the parameters are the number of optimizer updates   *)
(* applied and whether a NaN has reached them.  call_args holds the        *)
(* arguments, call_out the locals of train, of the accelerator and of the  *)
(* current train_step call.                                                *)
(***************************************************************************)
MaxLoaderLen == 2    \* the dataloader yields 1..MaxLoaderLen batches per pass
MaxTrainSteps == 8   \* train_step calls followed in one run

\* get_max_update_steps, lines 172-180.  num_update_steps_per_epoch is the float
\* num / den (at least 1); max_update_steps is max_steps when that is positive.
num_update_steps_per_epoch(a) ==
    LET num == a.dataloader_nums * a.minibatches_per_batch * a.ppo_epochs
        den == a.gradient_accumulation_steps
    IN  IF num < den THEN [num |-> 1, den |-> 1] ELSE [num |-> num, den |-> den]

CeilDiv(x, y) == (x + y - 1) \div y

max_update_steps(a) ==
    IF a.max_steps > 0 THEN a.max_steps
    ELSE CeilDiv(a.num_train_epochs * num_update_steps_per_epoch(a).num,
                 num_update_steps_per_epoch(a).den)

\* train lines 847-857: with max_steps > 0,
\* max_steps // num_update_steps_per_epoch + int(max_steps % num_update_steps_per_epoch > 0).
num_train_epochs(a) ==
    LET per == num_update_steps_per_epoch(a)
    IN  IF a.max_steps > 0
        THEN (a.max_steps * per.den) \div per.num
             + (IF (a.max_steps * per.den) % per.num > 0 THEN 1 ELSE 0)
        ELSE a.num_train_epochs

\* Accelerator.accumulate: the gradients are synchronised (and the optimizer,
\* scheduler and zero_grad calls take effect) on every gradient_accumulation_steps-th
\* call, and on every call while the prepared dataloader is at its last batch when
\* the accelerator synchronises with the dataloader; the call count restarts there.
AccumulateStep(count, end_of_dataloader, a) ==
    IF a.sync_with_dataloader /\ end_of_dataloader THEN 0 ELSE count + 1

SyncGradients(count, end_of_dataloader, a) ==
    \/ a.sync_with_dataloader /\ end_of_dataloader
    \/ (count + 1) % a.gradient_accumulation_steps = 0

\* The terms of the loss, lines 800-803.
LossTerms(extra_inputs) ==
    {"actor_loss_weight * actor_loss", "entropy_beta * entropy",
     "critic_loss_weight * critic_loss"}
    \cup (IF extra_inputs THEN {"extra_loss_weight_warmup * extra_loss"} ELSE {})

\* The stages of one train_step call, in the order of lines 777-822.
Stages(a) ==
    <<"forward", "loss", "backward">>
    \o (IF a.max_grad_norm THEN <<"clip_grad_norm_">> ELSE <<>>)
    \o <<"optimizer.step", "lr_scheduler.step", "optimizer.zero_grad">>

Schedules ==
    {[max_steps |-> 0, num_train_epochs |-> 1], [max_steps |-> 0, num_train_epochs |-> 2],
     [max_steps |-> 1, num_train_epochs |-> 1], [max_steps |-> 3, num_train_epochs |-> 1]}

\* No NaN in any loss; NaN losses possible, without and with fp16 mixed precision.
Numerics == {"stable", "unstable", "unstable_fp16"}

StepArgs ==
    {[dataloader_nums |-> n, mini_data_buffer_nums |-> nums, minibatches_per_batch |-> per,
      ppo_epochs |-> epochs, gradient_accumulation_steps |-> gas,
      max_steps |-> sched.max_steps, num_train_epochs |-> sched.num_train_epochs,
      use_co_model |-> mode[1], has_extra |-> mode[2], max_grad_norm |-> clip,
      sync_with_dataloader |-> sync, numerics |-> num] :
        n \in 1..MaxLoaderLen, nums \in {1, 2}, per \in {1, 2}, epochs \in {1, 2},
        gas \in {1, 2}, sched \in Schedules, mode \in BOOLEAN \X BOOLEAN,
        clip \in BOOLEAN, sync \in BOOLEAN, num \in Numerics}

\* The parameters, gradients and schedule before any update.
StepLocals ==
    [epoch |-> 0, i |-> 0, data_buffer |-> 0, mini_dataset |-> 0, ppo_epoch |-> 0, j |-> 0,
     step |-> 0, calls |-> 0, rollouts |-> 0, flattened |-> 0,
     accumulate_step |-> 0, sync_gradients |-> FALSE,
     grads |-> [calls |-> 0, nan |-> FALSE], params |-> [updates |-> 0, nan |-> FALSE],
     lr_steps |-> 0,
     trace |-> <<>>, loss |-> [terms |-> {}, nan |-> FALSE], extra_loss |-> "unset",
     before |-> [updates |-> 0, nan |-> FALSE]]

StepInit ==
    /\ RoleIdle
    /\ call_stage = "epochs"
    /\ call_args \in StepArgs
    /\ call_out = StepLocals

\* The prepared dataloader has yielded its last batch (DataLoaderShard sets
\* end_of_dataloader with it, until the next pass begins).
EndOfDataloader == call_out.i = call_args.dataloader_nums

\* The stage of the current train_step call that comes next.
NextStage(name) ==
    /\ call_stage = "call"
    /\ Len(call_out.trace) < Len(Stages(call_args))
    /\ Stages(call_args)[Len(call_out.trace) + 1] = name

\* train line 876: the next pass over the dataloader.
BeginEpoch ==
    /\ call_stage = "epochs"
    /\ call_out.epoch < num_train_epochs(call_args)
    /\ call_out' = [call_out EXCEPT !.i = 0]
    /\ call_stage' = "loop"
    /\ UNCHANGED <<call_args, roleVars>>

\* train lines 881-899: a rollout is appended; a full buffer is flattened and cleared.
StepRollout ==
    /\ call_stage = "loop"
    /\ call_out.i < call_args.dataloader_nums
    /\ IF call_out.data_buffer + 1 = call_args.mini_data_buffer_nums
       THEN /\ call_out' = [call_out EXCEPT
                              !.i = @ + 1, !.rollouts = @ + 1, !.data_buffer = 0,
                              !.mini_dataset = (call_out.data_buffer + 1)
                                               * call_args.minibatches_per_batch,
                              !.flattened = @ + call_out.data_buffer + 1,
                              !.ppo_epoch = 0, !.j = 0]
            /\ call_stage' = "train_step"
       ELSE /\ call_out' = [call_out EXCEPT !.i = @ + 1, !.rollouts = @ + 1,
                                            !.data_buffer = @ + 1]
            /\ call_stage' = "loop"
    /\ UNCHANGED <<call_args, roleVars>>

\* The dataloader is exhausted: the next epoch.  data_buffer is kept.
EndEpoch ==
    /\ call_stage = "loop"
    /\ call_out.i = call_args.dataloader_nums
    /\ call_out' = [call_out EXCEPT !.epoch = @ + 1]
    /\ call_stage' = "epochs"
    /\ UNCHANGED <<call_args, roleVars>>

\* train lines 942-943.
StepEndTraining ==
    /\ call_stage = "epochs"
    /\ call_out.epoch = num_train_epochs(call_args)
    /\ call_stage' = "done"
    /\ UNCHANGED <<call_args, call_out, roleVars>>

\* train lines 902-910 and train_step lines 777-789: step is advanced, train_step is
\* called, accumulate() is entered and the models are run.  The shared model is
\* called with **extra_inputs (line 781), which raises a TypeError when
\* extra_inputs is None.
StepForward ==
    /\ call_stage = "train_step"
    /\ call_out.step < MaxTrainSteps
    /\ call_out' = [call_out EXCEPT
                      !.step = @ + 1, !.calls = @ + 1,
                      !.accumulate_step =
                          AccumulateStep(@, EndOfDataloader, call_args),
                      !.sync_gradients =
                          SyncGradients(call_out.accumulate_step, EndOfDataloader, call_args),
                      !.before = call_out.params,
                      !.loss = [terms |-> {}, nan |-> FALSE],
                      !.extra_loss = "unset",
                      !.trace = IF call_args.use_co_model /\ ~call_args.has_extra
                                THEN <<>> ELSE <<"forward">>]
    /\ call_stage' = IF call_args.use_co_model /\ ~call_args.has_extra
                     THEN "TypeError" ELSE "call"
    /\ UNCHANGED <<call_args, roleVars>>

\* Lines 792-803.  A NaN in the parameters makes the loss NaN.
LossCompute ==
    /\ NextStage("loss")
    /\ \E nan \in BOOLEAN :
          /\ nan => call_args.numerics # "stable"
          /\ call_out.params.nan => nan
          /\ call_out' = [call_out EXCEPT
                            !.loss = [terms |-> LossTerms(call_args.has_extra), nan |-> nan],
                            !.trace = Append(@, "loss")]
    /\ UNCHANGED <<call_stage, call_args, roleVars>>

\* Line 806: the gradients of the loss are added to the accumulated ones.
Backward ==
    /\ NextStage("backward")
    /\ call_out' = [call_out EXCEPT
                      !.grads = [calls |-> @.calls + 1, nan |-> @.nan \/ call_out.loss.nan],
                      !.trace = Append(@, "backward")]
    /\ UNCHANGED <<call_stage, call_args, roleVars>>

\* Lines 808-817, when max_grad_norm is set.
ClipGrad ==
    /\ NextStage("clip_grad_norm_")
    /\ call_out' = [call_out EXCEPT !.trace = Append(@, "clip_grad_norm_")]
    /\ UNCHANGED <<call_stage, call_args, roleVars>>

\* Line 819: the prepared optimizer steps when the gradients are synchronised; with
\* fp16 its gradient scaler skips a step whose gradients hold a NaN.
OptimizerStep ==
    /\ NextStage("optimizer.step")
    /\ call_out' = [call_out EXCEPT
                      !.params =
                          IF ~call_out.sync_gradients THEN @
                          ELSE IF call_out.grads.nan /\ call_args.numerics = "unstable_fp16"
                               THEN @
                               ELSE [updates |-> @.updates + 1, nan |-> @.nan \/ call_out.grads.nan],
                      !.trace = Append(@, "optimizer.step")]
    /\ UNCHANGED <<call_stage, call_args, roleVars>>

\* Lines 820-821.
SchedulerStep ==
    /\ NextStage("lr_scheduler.step")
    /\ call_out' = [call_out EXCEPT
                      !.lr_steps = IF call_out.sync_gradients THEN @ + 1 ELSE @,
                      !.trace = Append(@, "lr_scheduler.step")]
    /\ UNCHANGED <<call_stage, call_args, roleVars>>

\* Line 822.
ZeroGrad ==
    /\ NextStage("optimizer.zero_grad")
    /\ call_out' = [call_out EXCEPT
                      !.grads = IF call_out.sync_gradients THEN [calls |-> 0, nan |-> FALSE] ELSE @,
                      !.trace = Append(@, "optimizer.zero_grad")]
    /\ UNCHANGED <<call_stage, call_args, roleVars>>

\* train_step lines 824-833 and train lines 911-940: the result is returned, then
\* the next minibatch, the next inner epoch or the next batch of the dataloader.
StepReturn ==
    /\ call_stage = "call"
    /\ Len(call_out.trace) = Len(Stages(call_args))
    /\ LET last == call_out.j + 1 = call_out.mini_dataset
           final == last /\ call_out.ppo_epoch + 1 = call_args.ppo_epochs
       IN  /\ call_out' = [call_out EXCEPT
                             !.extra_loss = IF call_args.has_extra THEN "extra_loss" ELSE "0.0",
                             !.j = IF last THEN 0 ELSE @ + 1,
                             !.ppo_epoch = IF last THEN @ + 1 ELSE @]
           /\ call_stage' = IF final THEN "loop" ELSE "train_step"
    /\ UNCHANGED <<call_args, roleVars>>

StepNext ==
    \/ BeginEpoch
    \/ StepRollout
    \/ EndEpoch
    \/ StepEndTraining
    \/ StepForward
    \/ LossCompute
    \/ Backward
    \/ ClipGrad
    \/ OptimizerStep
    \/ SchedulerStep
    \/ ZeroGrad
    \/ StepReturn

SpecStep == StepInit /\ [][StepNext]_vars

\* A train_step call has run its last stage.
CallComplete == call_stage = "call" /\ Len(call_out.trace) = Len(Stages(call_args))

\* C21: when the loss of a minibatch is NaN, train_step skips the optimizer step for
\* that minibatch, leaving all trainable parameters unchanged, and training goes on
\* with the next minibatch.
C21_NaNStepSkipped ==
    (CallComplete /\ call_out.loss.nan) => call_out.params = call_out.before

\* C21 with fp16 mixed precision, where the gradient scaler skips the step.
C21_NaNStepSkippedWithFp16 ==
    call_args.numerics = "unstable_fp16" => C21_NaNStepSkipped

\* The order of the stages as C22 states it.
C22_Order ==
    <<"forward", "loss", "backward">>
    \o (IF call_args.max_grad_norm THEN <<"clip_grad_norm_">> ELSE <<>>)
    \o <<"optimizer.step", "lr_scheduler.step", "optimizer.zero_grad">>

\* C22: every train_step call performs, each exactly once and in this order, forward,
\* loss computation, backward, gradient-norm clipping (only when max_grad_norm is
\* configured), optimizer step, scheduler step and gradient zeroing, and the step
\* counter advances by exactly one per call.
C22_StagesInOrder ==
    /\ call_stage # "TypeError"
    /\ call_stage = "call" => call_out.trace = SubSeq(C22_Order, 1, Len(call_out.trace))
    /\ call_stage \in {"train_step", "loop", "epochs", "done"} =>
          call_out.trace \in {<<>>, C22_Order}
    /\ call_out.step = call_out.calls

\* C22 for the calls that do not raise in the forward pass.
C22_StagesInOrderUnlessRaised ==
    (call_args.use_co_model /\ ~call_args.has_extra) \/ C22_StagesInOrder

\* C23: with gradient_accumulation_steps = k > 1 the parameters are updated, the
\* schedule advanced and the gradients zeroed only on every k-th call, and the number
\* of optimizer updates equals update_steps = step / k.
C23_UpdateEveryKthCall ==
    (CallComplete /\ call_args.gradient_accumulation_steps > 1
                  /\ call_args.numerics = "stable") =>
        LET k == call_args.gradient_accumulation_steps
        IN  /\ call_out.params.updates = call_out.step \div k
            /\ call_out.lr_steps = call_out.step \div k
            /\ call_out.step % k # 0 =>
                  call_out.params = call_out.before /\ call_out.grads.calls > 0
            /\ call_out.step % k = 0 => call_out.grads.calls = 0

\* C23 when the accelerator does not synchronise at the end of the dataloader.
C23_UpdateEveryKthCallWithoutDataloaderSync ==
    call_args.sync_with_dataloader \/ C23_UpdateEveryKthCall

\* C25: without an auxiliary dataset train_step completes without error with the
\* shared model and with separate models, the loss has no auxiliary term, and the
\* reported extra_loss is 0.
C25_NoAuxiliaryData ==
    ~call_args.has_extra =>
        /\ call_stage # "TypeError"
        /\ call_out.loss.terms \in
              {{}, {"actor_loss_weight * actor_loss", "entropy_beta * entropy",
                    "critic_loss_weight * critic_loss"}}
        /\ call_out.extra_loss \in {"unset", "0.0"}

\* C25 with separate models.
C25_NoAuxiliaryDataSeparateModels ==
    call_args.use_co_model \/ C25_NoAuxiliaryData

\* C27: with max_steps > 0 training stops once max_steps is reached: update_steps =
\* step / gradient_accumulation_steps never exceeds max_update_steps.
C27_StopsAtMaxSteps ==
    call_args.max_steps > 0 =>
        call_out.step <= max_update_steps(call_args) * call_args.gradient_accumulation_steps

\* C30: every rollout batch is flattened (and trained on for ppo_epochs inner epochs)
\* before train returns: the records of a partially filled buffer are not discarded.
C30_EveryRolloutTrained ==
    call_stage = "done" => call_out.flattened = call_out.rollouts

\* C30 at the end of a dataloader pass: the partially filled buffer is kept.
C30_BufferKeptBetweenPasses ==
    call_out.rollouts = call_out.flattened + call_out.data_buffer

(***************************************************************************)
(* SpecWarmup: the auxiliary loss weight of train_step, lines 760-770, at  *)
(* the successive steps of a run.  A weight is the exact number            *)
(* (num / den) * 2 ^ (log / LogScale); extra_loss_weight is a power of 2.  *)
(***************************************************************************)
MaxWarmupSteps == 6   \* self.max_steps is 1..MaxWarmupSteps
LogScale == 1000

Weight(num, den, log) == [num |-> num, den |-> den, log |-> log]

\* x ** 1.001
Pow1001(x) == Weight(x.num, x.den, (x.log * 1001) \div 1000)

\* step / extra_warmup_steps * x
Ramp(step, extra_warmup_steps, x) == Weight(step * x.num, extra_warmup_steps * x.den, x.log)

\* Line 764: int(extra_warmup_steps_ratio * self.max_steps), the ratio being
\* <<num, den>> (and <<>> for None).
extra_warmup_steps(a) ==
    (a.extra_warmup_steps_ratio[1] * a.max_steps) \div a.extra_warmup_steps_ratio[2]

\* Lines 762-770: the local extra_loss_weight_warmup starts from args.extra_loss_weight
\* in every call.
extra_loss_weight_warmup(step, a) ==
    IF a.extra_warmup_steps_ratio = <<>> THEN a.extra_loss_weight
    ELSE IF step < extra_warmup_steps(a)
         THEN Ramp(step, extra_warmup_steps(a), a.extra_loss_weight)
         ELSE Pow1001(a.extra_loss_weight)

WarmupRatios == {<<>>, <<1, 2>>, <<3, 4>>}
ExtraLossWeights == {Weight(1, 1, e * LogScale) : e \in {-1, 0, 1}}

WarmupInit ==
    /\ RoleIdle
    /\ call_stage = "warmup"
    /\ \E ratio \in WarmupRatios, w \in ExtraLossWeights, max_steps \in 1..MaxWarmupSteps :
          call_args = [extra_warmup_steps_ratio |-> ratio, extra_loss_weight |-> w,
                       max_steps |-> max_steps]
    /\ call_out = [step |-> 0, weights |-> <<>>]

\* The train_step call of the next step computes its weight.
WarmupStep ==
    /\ call_stage = "warmup"
    /\ call_out.step < call_args.max_steps
    /\ call_out' = [step |-> call_out.step + 1,
                    weights |-> Append(call_out.weights,
                                       extra_loss_weight_warmup(call_out.step + 1, call_args))]
    /\ UNCHANGED <<call_stage, call_args, roleVars>>

WarmupNext == WarmupStep

SpecWarmup == WarmupInit /\ [][WarmupNext]_vars

\* C24: with a warm-up ratio the weight at step s is (s / W) * extra_loss_weight for
\* s < W = int(extra_warmup_steps_ratio * max_steps), and after the warm-up the weight
\* grows with each step: it is not the same value at two post-warm-up steps.
C24_WarmupThenGrowth ==
    call_args.extra_warmup_steps_ratio # <<>> =>
        LET W == (call_args.extra_warmup_steps_ratio[1] * call_args.max_steps)
                    \div call_args.extra_warmup_steps_ratio[2]
            w == call_args.extra_loss_weight
        IN  /\ \A s \in 1..Len(call_out.weights) :
                  s < W => call_out.weights[s] = [num |-> s * w.num, den |-> W * w.den,
                                                  log |-> w.log]
            /\ \A s, t \in 1..Len(call_out.weights) :
                  (W <= s /\ s < t) => call_out.weights[s] # call_out.weights[t]

\* C24, the linear warm-up alone.
C24_LinearWarmup ==
    call_args.extra_warmup_steps_ratio # <<>> =>
        LET W == (call_args.extra_warmup_steps_ratio[1] * call_args.max_steps)
                    \div call_args.extra_warmup_steps_ratio[2]
            w == call_args.extra_loss_weight
        IN  \A s \in 1..Len(call_out.weights) :
                s < W => call_out.weights[s] = [num |-> s * w.num, den |-> W * w.den,
                                                log |-> w.log]

(***************************************************************************)
(* SpecLogs: record_logs, print_logs and the clearing of all_logs in       *)
(* several processes, for one key of the logs.  A logged value is the      *)
(* exact number num / den.  call_out holds per process its position, its   *)
(* step, its all_logs and every value it has recorded, the contributions   *)
(* to each all-reduce and the records written.                             *)
(***************************************************************************)
LogValues == {0, 1}

\* The distributed types of a run with several processes; line 115:
\* is_distributed = (accelerator.distributed_type == "MULTI_GPU").
DistributedTypes == {"MULTI_GPU", "DEEPSPEED"}
is_distributed(a) == a.distributed_type = "MULTI_GPU"

\* print_logs lines 729-732: torch.mean over the values of all_logs.
MergedLogs(all_logs) == [num |-> SeqSum(all_logs), den |-> Len(all_logs)]

\* The sum of the merged values contributed, a contribution being <<v>>.
RECURSIVE SumOver(_, _)
SumOver(contributions, ranks) ==
    IF ranks = {} THEN 0
    ELSE LET r == CHOOSE q \in ranks : TRUE
         IN  contributions[r][1].num + SumOver(contributions, ranks \ {r})

\* Lines 741-742: all_reduce(v, SUM), then v /= num_processes.
AllReduceMean(contributions, v) ==
    [num |-> SumOver(contributions, Ranks), den |-> v.den * Cardinality(Ranks)]

LogsInit ==
    /\ RoleIdle
    /\ call_stage = "logs"
    /\ \E gas \in {1, 2}, type \in DistributedTypes :
          call_args = [gradient_accumulation_steps |-> gas, distributed_type |-> type,
                       steps |-> MaxDistSteps]
    /\ call_out = [pc |-> [r \in Ranks |-> "train_step"], step |-> [r \in Ranks |-> 0],
                   all_logs |-> [r \in Ranks |-> <<>>], recorded |-> [r \in Ranks |-> <<>>],
                   merged |-> [r \in Ranks |-> <<>>], barrier |-> [r \in Ranks |-> 0],
                   all_reduce |-> [p \in 1..MaxDistSteps |-> [r \in Ranks |-> <<>>]],
                   records |-> {}]

InLogs == call_stage = "logs" /\ UNCHANGED <<call_stage, call_args, roleVars>>

\* The logging point a process is at: update_steps.
UpdateSteps(rank) == call_out.step[rank] \div call_args.gradient_accumulation_steps

\* train lines 902-916: a train step, and its logs appended to all_logs.
LogsRecord ==
    \E rank \in Ranks, v \in LogValues :
    /\ InLogs
    /\ call_out.pc[rank] = "train_step"
    /\ call_out.step[rank] < call_args.steps
    /\ call_out' = [call_out EXCEPT
                      !.step[rank] = @ + 1,
                      !.all_logs[rank] = Append(@, v),
                      !.recorded[rank] = Append(@, v),
                      !.pc[rank] = IF (call_out.step[rank] + 1)
                                        % call_args.gradient_accumulation_steps = 0
                                   THEN "print_logs" ELSE "train_step"]

\* print_logs lines 729-736: the values are merged; a distributed run enters the
\* barrier.
LogsMerge ==
    \E rank \in Ranks :
    /\ InLogs
    /\ call_out.pc[rank] = "print_logs"
    /\ call_out' = [call_out EXCEPT
                      !.merged[rank] = <<MergedLogs(call_out.all_logs[rank])>>,
                      !.barrier[rank] = IF is_distributed(call_args) THEN @ + 1 ELSE @,
                      !.pc[rank] = IF is_distributed(call_args) THEN "barrier" ELSE "log"]

\* Lines 736-741: every process has entered the barrier; the value is contributed
\* to the all-reduce.
LogsAllReduce ==
    \E rank \in Ranks :
    /\ InLogs
    /\ call_out.pc[rank] = "barrier"
    /\ \A q \in Ranks : call_out.barrier[q] >= call_out.barrier[rank]
    /\ call_out' = [call_out EXCEPT
                      !.all_reduce[UpdateSteps(rank)][rank] = call_out.merged[rank],
                      !.pc[rank] = "all_reduce"]

\* Lines 741-745: every process has contributed; the sum is divided by
\* num_processes.
LogsAveraged ==
    \E rank \in Ranks :
    /\ InLogs
    /\ call_out.pc[rank] = "all_reduce"
    /\ \A q \in Ranks : call_out.all_reduce[UpdateSteps(rank)][q] # <<>>
    /\ call_out' = [call_out EXCEPT
                      !.merged[rank] = <<AllReduceMean(call_out.all_reduce[UpdateSteps(rank)],
                                                       call_out.merged[rank][1])>>,
                      !.pc[rank] = "log"]

\* Lines 747-757 and train line 923: the main process writes the record; all_logs is
\* cleared.
LogsWrite ==
    \E rank \in Ranks :
    /\ InLogs
    /\ call_out.pc[rank] = "log"
    /\ call_out' = [call_out EXCEPT
                      !.records = IF is_world_process_zero(rank)
                                  THEN @ \cup {[rank |-> rank, step |-> UpdateSteps(rank),
                                                value |-> call_out.merged[rank][1]]}
                                  ELSE @,
                      !.all_logs[rank] = <<>>,
                      !.pc[rank] = "train_step"]

LogsNext ==
    \/ LogsRecord
    \/ LogsMerge
    \/ LogsAllReduce
    \/ LogsAveraged
    \/ LogsWrite

SpecLogs == LogsInit /\ [][LogsNext]_vars

\* The sum of the values process rank recorded at the steps of logging point p.
RECURSIVE WindowSum(_, _, _)
WindowSum(rank, p, n) ==
    IF n = 0 THEN 0
    ELSE call_out.recorded[rank][(p - 1) * call_args.gradient_accumulation_steps + n]
         + WindowSum(rank, p, n - 1)

RECURSIVE WindowSums(_, _)
WindowSums(ranks, p) ==
    IF ranks = {} THEN 0
    ELSE LET r == CHOOSE q \in ranks : TRUE
         IN  WindowSum(r, p, call_args.gradient_accumulation_steps) + WindowSums(ranks \ {r}, p)

\* C26: at each logging point of a run with several processes every process takes
\* part in the barrier and the all-reduce, the value logged is the average across
\* processes of each process's mean over the steps since the previous logging
\* point, only the main process writes the record, and the accumulated logs are
\* cleared afterwards.
C26_AveragedLogs ==
    call_stage = "logs" =>
        LET k == call_args.gradient_accumulation_steps
        IN  /\ \A rec \in call_out.records :
                  /\ rec.rank = 0
                  /\ \A q \in Ranks :
                        /\ call_out.barrier[q] >= rec.step
                        /\ call_out.all_reduce[rec.step][q] # <<>>
                        /\ Len(call_out.recorded[q]) >= rec.step * k
                  /\ rec.value.num * k * Cardinality(Ranks)
                        = rec.value.den * WindowSums(Ranks, rec.step)
            /\ \A rank \in Ranks :
                  call_out.pc[rank] = "train_step" =>
                      Len(call_out.all_logs[rank]) = call_out.step[rank] % k

\* C26 for the distributed type MULTI_GPU.
C26_AveragedLogsMultiGpu ==
    call_args.distributed_type = "MULTI_GPU" => C26_AveragedLogs

====
